---- MODULE Spec2Model ----
(***************************************************************************)
(* SALZ block codec (src/lib/salz.c): salz_encode_safe and                 *)
(* salz_decode_safe as a state machine over one I/O context.               *)
(*                                                                         *)
(* Memory is modelled as functions from 0-based indices to bytes.  A       *)
(* 64-bit word (the bit accumulator) is a sequence of 64 bits, index 1     *)
(* being the most significant bit, so that shifts and the raw              *)
(* little-endian 8-byte store are computed as the code computes them.      *)
(* Faults (stores and loads outside a buffer, use of a NULL allocation,    *)
(* undefined shifts, failed assertions) are recorded in ctx.fault.         *)
(***************************************************************************)
EXTENDS Integers, Sequences, FiniteSets

VARIABLES
    pc,          \* position of the caller / callee
    plain,       \* the source block handed to salz_encode_safe (0-based bytes)
    plain_len,   \* its length
    enc,         \* the caller's destination buffer of the encode call (0-based bytes)
    enc_dst_len, \* the caller's *dst_len of the encode call (in: capacity, out: length)
    enc_cap,     \* the capacity the caller passed to the encode call
    enc_ret,     \* return value of salz_encode_safe (2: not returned yet)
    alloc_fail,  \* which scratch allocation of the encode call fails ("none" if none)
    ctx,         \* the salz_io_ctx of the call in progress
    loc,         \* the loop variables (top, i / pos / src_pos) of the encoder's passes
    parse,       \* tokens written by the encode walk: <<pos, offs, len>> (len 1: literal)
    seg,         \* the segment handed to salz_decode_safe (0-based bytes)
    seg_len,     \* its length
    seg_kind,    \* where the segment came from
    dec_dst_len, \* the caller's *dst_len of the decode call
    dec_cap,     \* the capacity the caller passed to the decode call
    dec_ret,     \* return value of salz_decode_safe (2: not returned yet)
    dec_alloc_fail, \* which allocation of the decode call fails ("none" if none)
    out,         \* the caller's destination buffer after salz_decode_safe returned
    heap         \* scratch allocations: live ones and the sequence of frees

vars == <<pc, plain, plain_len, enc, enc_dst_len, enc_cap, enc_ret, alloc_fail, ctx,
          loc, parse, seg, seg_len, seg_kind, dec_dst_len, dec_cap, dec_ret,
          dec_alloc_fail, out, heap>>

(***************************************************************************)
(* Bounds of the model.                                                    *)
(***************************************************************************)
\* longest factorised prefix (src_len - 8) of the exhaustively enumerated blocks
MaxPrefix == 6
\* most tokens of a hand-made (possibly malformed) salz stream
MaxTokens == 2
\* a buffer longer than this is kept on its first Window bytes only
Window == 128
\* the blocks around 16 MiB are LargeSpan bytes shorter or longer than 2^24
LargeSpan == 5

(***************************************************************************)
(* Program constants.                                                      *)
(***************************************************************************)
SALZ_STREAM_TYPE_PLAIN == 0
SALZ_STREAM_TYPE_SALZ == 1
SALZ_STREAM_TYPE_MAX == 2
SALZ_TOKEN_TYPE_LITERAL == 0
SALZ_TOKEN_TYPE_FACTOR == 1
FACTOR_OFFSET_MIN == 1
FACTOR_LENGTH_MIN == 3
\* the encoder keeps the last 8 bytes of a block out of the factorisation
TAIL_LEN == 8
\* value of a byte nobody has written yet
Uninit == 255 + 1
\* the first length the 24-bit length field of the stream header cannot hold
\* (lengths are masked with 0xffffff)
LenCap == 16777216

Min(a, b) == IF a < b THEN a ELSE b
Max(a, b) == IF a > b THEN a ELSE b

RECURSIVE Pow2(_)
Pow2(k) == IF k = 0 THEN 1 ELSE 2 * Pow2(k - 1)

(***************************************************************************)
(* 64-bit words.                                                           *)
(***************************************************************************)
Zero64 == [i \in 1..64 |-> 0]

\* w << k for 0 <= k < 64
Shl64(w, k) == [i \in 1..64 |-> IF i + k <= 64 THEN w[i + k] ELSE 0]

\* w >> k for 0 <= k < 64
Shr64(w, k) == [i \in 1..64 |-> IF i - k >= 1 THEN w[i - k] ELSE 0]

Or64(a, b) == [i \in 1..64 |-> IF a[i] = 1 \/ b[i] = 1 THEN 1 ELSE 0]

And64(a, b) == [i \in 1..64 |-> IF a[i] = 1 /\ b[i] = 1 THEN 1 ELSE 0]

\* the word holding a non-negative number below 2^31
U64(n) == [i \in 1..64 |-> IF 64 - i <= 30 THEN (n \div Pow2(64 - i)) % 2 ELSE 0]

\* (1u << k) - 1 in unsigned int arithmetic, widened to 64 bits; the shift is
\* undefined for k >= 32, where the x86 result (count taken modulo 32) is used
Mask32(k) == [i \in 1..64 |-> IF 64 - i < (k % 32) THEN 1 ELSE 0]

\* the eight bytes of the raw store of w on a little-endian machine
BytesOfU64(w) ==
    [j \in 1..8 |->
        w[64 - (8 * (j - 1))] + 2 * w[64 - (8 * (j - 1) + 1)]
        + 4 * w[64 - (8 * (j - 1) + 2)] + 8 * w[64 - (8 * (j - 1) + 3)]
        + 16 * w[64 - (8 * (j - 1) + 4)] + 32 * w[64 - (8 * (j - 1) + 5)]
        + 64 * w[64 - (8 * (j - 1) + 6)] + 128 * w[64 - (8 * (j - 1) + 7)]]

\* the word a raw load of eight bytes gives on a little-endian machine
U64OfBytes(b) ==
    [i \in 1..64 |-> (b[((64 - i) \div 8) + 1] \div Pow2((64 - i) % 8)) % 2]

\* number of leading zero bits of a non-zero word
Clz64(w) == (CHOOSE i \in 1..64 : w[i] = 1 /\ \A j \in 1..(i - 1) : w[j] = 0) - 1

(***************************************************************************)
(* Raw I/O functions.                                                      *)
(***************************************************************************)
\* bytes b (a sequence) stored at mem[pos ...]; indices outside mem are dropped
StoreBytes(mem, pos, b) ==
    [i \in DOMAIN mem |-> IF i >= pos /\ i < pos + Len(b) THEN b[i - pos + 1] ELSE mem[i]]

\* n bytes loaded from mem[pos ...]; bytes outside mem read as Uninit
LoadBytes(mem, pos, n) ==
    [j \in 1..n |-> IF (pos + j - 1) \in DOMAIN mem THEN mem[pos + j - 1] ELSE Uninit]

InBuf(len, pos, n) == pos >= 0 /\ pos + n <= len

\* salz_memcpy(&dst[d], &src[s], n) for ranges that do not overlap; a byte of
\* src the model does not keep reads as Uninit
salz_memcpy(dst, d, src, s, n) ==
    [i \in DOMAIN dst |->
        IF i >= d /\ i < d + n
        THEN IF (s + (i - d)) \in DOMAIN src THEN src[s + (i - d)] ELSE Uninit
        ELSE dst[i]]

write_u32_raw(buf, pos, val) ==
    StoreBytes(buf, pos, <<val % 256, (val \div 256) % 256,
                           (val \div 65536) % 256, (val \div 16777216) % 256>>)

write_u64_raw(buf, pos, w) == StoreBytes(buf, pos, BytesOfU64(w))

\* read_u32_raw(buf, 0) >> 24 and read_u32_raw(buf, 0) & 0xffffff on a
\* little-endian machine
HdrType(buf) == buf[3]
HdrLen(buf) == buf[0] + 256 * buf[1] + 65536 * buf[2]

read_u64_raw(buf, pos) == U64OfBytes(LoadBytes(buf, pos, 8))

Fault(c, cond, tag) == IF cond THEN [c EXCEPT !.fault = @ \cup {tag}] ELSE c

\* w << 64, which is undefined: the word is left as it is (the shift count is
\* taken modulo 64) or becomes 0, as the build of context c has it
Shl64By64(c, w) == IF c.shl64_zero THEN Zero64 ELSE w

Ok(c) == [ok |-> TRUE, c |-> c]
Fail(c) == [ok |-> FALSE, c |-> c]

\* v bound once for the steps K that follow
With(v, K(_)) == K(v)

\* "if (!step) return false; ..." : the steps K that follow a successful step r
Then(r, K(_)) == IF ~r.ok THEN r ELSE K(r.c)

\* the same for a step that also gives a value (an out parameter)
ThenV(r, K(_, _)) == IF ~r.ok THEN r ELSE K(r.c, r.v)

(***************************************************************************)
(* Common I/O context functions.                                           *)
(***************************************************************************)
input_processed(c) == c.src_pos = c.src_len

\* the history dst_writer after the token that begins at tok stored n bytes at d
Stamp(w, dom, d, n, tok) ==
    [i \in (DOMAIN w) \cup {j \in dom : j >= d /\ j < d + n} |->
        IF i >= d /\ i < d + n THEN tok ELSE w[i]]

cpy_literal(c) ==
    IF c.src_pos >= c.src_len \/ c.dst_pos >= c.dst_len
    THEN Fail(c)
    ELSE Ok([c EXCEPT !.dst = StoreBytes(@, c.dst_pos, <<c.src[c.src_pos]>>),
                      !.dst_writer = Stamp(@, DOMAIN c.dst, c.dst_pos, 1, c.dst_pos),
                      !.dst_pos = @ + 1,
                      !.src_pos = @ + 1])

(***************************************************************************)
(* Encoding-only I/O context functions.                                    *)
(***************************************************************************)
write_u8(c, val) ==
    IF c.dst_pos >= c.dst_len
    THEN Fail(c)
    ELSE Ok([c EXCEPT !.dst = StoreBytes(@, c.dst_pos, <<val>>),
                      !.dst_pos = @ + 1])

flush_bits(c) ==
    With(Fault([c EXCEPT !.dst = write_u64_raw(@, c.bits_pos, c.bits)],
               ~InBuf(c.dst_len, c.bits_pos, 8), "enc_store_oob"),
         LAMBDA c1 :
           IF c1.dst_pos + 8 > c1.dst_len
           THEN Fail(c1)
           ELSE Ok([c1 EXCEPT !.bits = Zero64,
                              !.bits_avail = 64,
                              !.bits_pos = c1.dst_pos,
                              !.dst_pos = @ + 8]))

\* the common prologue "if (bits_avail == 0 && !flush_bits(ctx)) return false"
FlushIfFull(c) == IF c.bits_avail = 0 THEN flush_bits(c) ELSE Ok(c)

\* a writer that reserves the next slot as soon as the accumulator is full
write_bit_eager(c, val) ==
    Then(FlushIfFull(c),
         LAMBDA c1 :
           IF c1.bits_avail = 1
           THEN flush_bits([c1 EXCEPT !.bits = Or64(Shl64(@, 1), U64(val % 2)),
                                      !.bits_avail = 0])
           ELSE Ok([c1 EXCEPT !.bits = Or64(Shl64(@, 1), U64(val % 2)),
                              !.bits_avail = @ - 1]))

write_bit(c, val) ==
    Then(FlushIfFull(c),
         LAMBDA c1 : Ok([c1 EXCEPT !.bits = Or64(Shl64(@, 1), U64(val % 2)),
                                   !.bits_avail = @ - 1]))

\* the branch "if (count > bits_avail)" of write_bits: the high bits fill the
\* accumulator, which is flushed; gives the context and the count left to write
WriteBitsStraddle(c1, bits, count) ==
    IF count > c1.bits_avail
    THEN [r |-> flush_bits(
                  Fault([c1 EXCEPT !.bits =
                              Or64(Shl64(@, c1.bits_avail),
                                   And64(Shr64(bits, count - c1.bits_avail),
                                         Mask32(c1.bits_avail)))],
                        c1.bits_avail >= 32, "shift_ub")),
          cnt |-> count - c1.bits_avail]
    ELSE [r |-> Ok(c1), cnt |-> count]

\* bits is a 64-bit word, count the number of its low bits to write
write_bits(c, bits, count) ==
    Then(FlushIfFull(c),
         LAMBDA c1 :
           With(WriteBitsStraddle(c1, bits, count),
                LAMBDA s :
                  Then(s.r,
                       LAMBDA c2 :
                         Ok(Fault([c2 EXCEPT !.bits = Or64(Shl64(@, s.cnt),
                                                           And64(bits, Mask32(s.cnt))),
                                             !.bits_avail = @ - s.cnt],
                                  s.cnt >= 32, "shift_ub")))))

RECURSIVE write_zeros(_, _)
write_zeros(c, count) ==
    IF count = 0 THEN Ok(c)
    ELSE
      Then(FlushIfFull(c),
           LAMBDA c1 :
             With(Min(c1.bits_avail, count),
                  LAMBDA write_count :
                    write_zeros(
                      Fault([c1 EXCEPT !.bits = IF write_count = 64 THEN Shl64By64(c1, @)
                                                 ELSE Shl64(@, write_count),
                                       !.bits_avail = @ - write_count],
                            write_count = 64, "shift_ub"),
                      count - write_count)))

write_unary(c, val) == Then(write_zeros(c, val), LAMBDA c1 : write_bit(c1, 1))

write_gr3(c, val) ==
    Then(write_unary(c, val \div 8), LAMBDA c1 : write_bits(c1, U64(val % 8), 3))

\* one byte of the little-endian nibble word: a masked high nibble and a low nibble
NibFull(v, s) == ((((v \div Pow2(s + 3)) - 1) % 8) * 16) + ((v \div Pow2(s)) % 8)
\* the most significant pair of nibbles (the high nibble is not masked)
NibLast(v, s) == ((((v \div Pow2(s + 3)) - 1) * 16) + ((v \div Pow2(s)) % 8)) % 256
\* a single most significant nibble
NibTop(v, s) == (v \div Pow2(s)) % 256

\* the bytes p[0..] written into the uint64 result and the number of nibbles
encode_vnibble_le(val) ==
    LET v0 == val
        v1 == val - 72
        v2 == val - 4680
        v3 == val - 299592
        v4 == val - 19173960
        v5 == val - 1227133512
        p0 == NibFull(v0, 0) + 8
    IN  IF val < 8 THEN [p |-> <<v0 + 8>>, n |-> 1]
        ELSE IF val < 72 THEN [p |-> <<NibLast(v0, 0) + 8>>, n |-> 2]
        ELSE IF val < 584 THEN [p |-> <<p0, NibTop(v1, 6)>>, n |-> 3]
        ELSE IF val < 4680 THEN [p |-> <<p0, NibLast(v1, 6)>>, n |-> 4]
        ELSE IF val < 37448 THEN
            [p |-> <<p0, NibFull(v1, 6), NibTop(v2, 12)>>, n |-> 5]
        ELSE IF val < 299592 THEN
            [p |-> <<p0, NibFull(v1, 6), NibLast(v2, 12)>>, n |-> 6]
        ELSE IF val < 2396744 THEN
            [p |-> <<p0, NibFull(v1, 6), NibFull(v2, 12), NibTop(v3, 18)>>, n |-> 7]
        ELSE IF val < 19173960 THEN
            [p |-> <<p0, NibFull(v1, 6), NibFull(v2, 12), NibLast(v3, 18)>>, n |-> 8]
        ELSE IF val < 153391688 THEN
            [p |-> <<p0, NibFull(v1, 6), NibFull(v2, 12), NibFull(v3, 18),
                     NibTop(v4, 24)>>, n |-> 9]
        ELSE IF val < 1227133512 THEN
            [p |-> <<p0, NibFull(v1, 6), NibFull(v2, 12), NibFull(v3, 18),
                     NibLast(v4, 24)>>, n |-> 10]
        ELSE
            [p |-> <<p0, NibFull(v1, 6), NibFull(v2, 12), NibFull(v3, 18),
                     NibFull(v4, 24), NibTop(v5, 30)>>, n |-> 11]

write_vnibble(c, val) ==
    LET e == encode_vnibble_le(val)
        \* bytes of the local uint64 the encoder did not write stay unset
        nibbles == U64OfBytes([j \in 1..8 |-> IF j <= Len(e.p) THEN e.p[j] ELSE Uninit])
    IN  write_bits(c, nibbles, e.n * 4)

(***************************************************************************)
(* Encoding functions.                                                     *)
(***************************************************************************)
\* lexicographic order of the suffixes t[i..n) and t[j..n)
RECURSIVE SuffixLess(_, _, _, _)
SuffixLess(t, n, i, j) ==
    IF i >= n THEN j < n
    ELSE IF j >= n THEN FALSE
    ELSE IF t[i] # t[j] THEN t[i] < t[j]
    ELSE SuffixLess(t, n, i + 1, j + 1)

\* the suffix array of t[0..n): the i-th entry starts the i-th smallest suffix
libsais(t, n) ==
    With([i \in 0..(n - 1) |-> Cardinality({j \in 0..(n - 1) : SuffixLess(t, n, j, i)})],
         LAMBDA rank : [r \in 0..(n - 1) |-> CHOOSE i \in 0..(n - 1) : rank[i] = r])

build_suffix_array(c) ==
    LET s == libsais(c.src, c.src_len)
    IN  [c EXCEPT !.sa = [i \in DOMAIN c.sa |->
                            IF i >= 1 /\ i <= c.src_len THEN s[i - 1] ELSE c.sa[i]]]

\* loads and stores of the auxiliary array; a NULL or out-of-range access is a fault
AuxBad(c, idx) == c.aux_null \/ idx < 0 \/ idx >= c.aux_len
AuxFault(c, idx) ==
    Fault(Fault(c, c.aux_null, "null_deref"),
          ~c.aux_null /\ (idx < 0 \/ idx >= c.aux_len), "aux_oob")
AuxLoad(c, idx) == IF AuxBad(c, idx) THEN 0 ELSE c.aux[idx]
AuxStore(c, idx, v) ==
    IF AuxBad(c, idx) THEN AuxFault(c, idx) ELSE [c EXCEPT !.aux[idx] = v]

\* build_psvnsv_array up to its loop: the two sentinels
PsvNsvEnter(c) ==
    LET sa == [c.sa EXCEPT ![0] = -1, ![c.src_len + 1] = -1]
    IN  [c EXCEPT !.sa = sa, !.sa_given = sa]

PsvNsvIterSwapped(c, top, i) ==
    IF c.sa[top] > c.sa[i]
    THEN IF top - 1 < 0
         THEN [c |-> Fault(c, TRUE, "sa_oob"), top |-> top, i |-> i]
         ELSE [c |-> [AuxStore(AuxStore(c, 0 + 4 * c.sa[top], c.sa[i]),
                               1 + 4 * c.sa[top], c.sa[top - 1])
                        EXCEPT !.psvnsv_written = Append(@, c.sa[top])],
               top |-> top - 1, i |-> i]
    ELSE [c |-> [c EXCEPT !.sa[top + 1] = c.sa[i]], top |-> top + 1, i |-> i + 1]

\* one test of the inner while loop of build_psvnsv_array: a pop when
\* sa[top] > sa[i], else the push that ends the iteration of the for loop
PsvNsvIter(c, top, i) ==
    IF c.sa[top] > c.sa[i]
    THEN IF top - 1 < 0
         THEN [c |-> Fault(c, TRUE, "sa_oob"), top |-> top, i |-> i]
         ELSE [c |-> [AuxStore(AuxStore(c, 0 + 4 * c.sa[top], c.sa[top - 1]),
                               1 + 4 * c.sa[top], c.sa[i])
                        EXCEPT !.psvnsv_written = Append(@, c.sa[top])],
               top |-> top - 1, i |-> i]
    ELSE [c |-> [c EXCEPT !.sa[top + 1] = c.sa[i]], top |-> top + 1, i |-> i + 1]

\* first index j in 0..7 at which the two 8-byte loads differ (ctz(diff) >> 3), 8 if none
FirstDiff8(c, a, b) ==
    IF \A j \in 0..7 : c.src[a + j] = c.src[b + j] THEN 8
    ELSE CHOOSE j \in 0..7 :
            c.src[a + j] # c.src[b + j] /\ \A k \in 0..(j - 1) : c.src[a + k] = c.src[b + k]

\* the bytewise tail loop of lcp_cmp
RECURSIVE LcpTail(_, _, _, _)
LcpTail(c, len, pos1, pos2) ==
    IF pos2 + len < c.src_len /\ c.src[pos1 + len] = c.src[pos2 + len]
    THEN LcpTail(c, len + 1, pos1, pos2)
    ELSE len

RECURSIVE lcp_cmp(_, _, _, _)
lcp_cmp(c, common_len, pos1, pos2) ==
    IF pos2 + common_len + 8 <= c.src_len
    THEN LET d == FirstDiff8(c, pos1 + common_len, pos2 + common_len)
         IN  IF d < 8 THEN common_len + d
             ELSE lcp_cmp(c, common_len + 8, pos1, pos2)
    ELSE LcpTail(c, common_len, pos1, pos2)

CommonLenKept(prev_len) == prev_len

\* prev_len + !prev_len - 1
CommonLen(prev_len) == prev_len + (IF prev_len = 0 THEN 1 ELSE 0) - 1

factorize_pos(c, pos, psv, nsv) ==
    LET psv_len == IF psv # -1 THEN lcp_cmp(c, CommonLen(c.prev_psv_len), psv, pos) ELSE 0
        nsv_len == IF nsv # -1 THEN lcp_cmp(c, CommonLen(c.prev_nsv_len), nsv, pos) ELSE 0
    IN  [c EXCEPT !.prev_psv = psv, !.prev_psv_len = psv_len,
                  !.prev_nsv = nsv, !.prev_nsv_len = nsv_len]

\* one iteration of the for loop of factorize
FactorizeIter(c, pos) ==
    LET psv == AuxLoad(c, 0 + 4 * pos)
        nsv == AuxLoad(c, 1 + 4 * pos)
        c1 == factorize_pos(AuxFault(c, 1 + 4 * pos), pos, psv, nsv)
    IN  AuxStore(AuxStore(AuxStore(AuxStore(c1, 0 + 4 * pos, pos - c1.prev_psv),
                                   1 + 4 * pos, c1.prev_psv_len),
                          2 + 4 * pos, pos - c1.prev_nsv),
                 3 + 4 * pos, c1.prev_nsv_len)

\* a factorize that leaves the first position as build_psvnsv_array left it
FactorizeEnterUnforced(c) == c

\* factorize up to its loop: the first position is forced to be a literal
FactorizeEnter(c) == AuxStore(AuxStore(c, 1 + 4 * 0, 1), 3 + 4 * 0, 1)

vnibble_size(val) ==
    IF val < 8 THEN 1
    ELSE IF val < 72 THEN 2
    ELSE IF val < 584 THEN 3
    ELSE IF val < 4680 THEN 4
    ELSE IF val < 37448 THEN 5
    ELSE IF val < 299592 THEN 6
    ELSE IF val < 2396744 THEN 7
    ELSE IF val < 19173960 THEN 8
    ELSE IF val < 153391688 THEN 9
    ELSE IF val < 1227133512 THEN 10
    ELSE 11

vnibble_bitsize(val) == 4 * vnibble_size(val)

factor_offs_bitsize(val) == 8 + vnibble_bitsize((val - FACTOR_OFFSET_MIN) \div 256)

\* a size that leaves out the zeros of the unary part
gr3_bitsize_flat(val) == 1 + 3

gr3_bitsize(val) == (val \div 8) + 1 + 3

factor_len_bitsize(val) == gr3_bitsize(val - FACTOR_LENGTH_MIN)

CandidateOnTie(c, best, src_pos, offs_idx, len_idx) ==
    LET alt_len == AuxLoad(c, len_idx)
        alt_offs == AuxLoad(c, offs_idx)
        alt_cost == 1 + factor_offs_bitsize(alt_offs) + factor_len_bitsize(alt_len)
                    + AuxLoad(c, 2 + 4 * (src_pos + alt_len))
    IN  IF alt_len >= FACTOR_LENGTH_MIN /\ alt_cost < best.cost + 9
        THEN [cost |-> alt_cost, factor_offs |-> alt_offs, factor_len |-> alt_len]
        ELSE best

\* a choice that is replaced by every candidate long enough to be a factor
CandidateAlways(c, best, src_pos, offs_idx, len_idx) ==
    LET alt_len == AuxLoad(c, len_idx)
        alt_offs == AuxLoad(c, offs_idx)
        alt_cost == 1 + factor_offs_bitsize(alt_offs) + factor_len_bitsize(alt_len)
                    + AuxLoad(c, 2 + 4 * (src_pos + alt_len))
    IN  IF alt_len >= FACTOR_LENGTH_MIN
        THEN [cost |-> alt_cost, factor_offs |-> alt_offs, factor_len |-> alt_len]
        ELSE best

\* a choice that is replaced by a candidate of the same cost
CandidateOnEqual(c, best, src_pos, offs_idx, len_idx) ==
    LET alt_len == AuxLoad(c, len_idx)
        alt_offs == AuxLoad(c, offs_idx)
        alt_cost == 1 + factor_offs_bitsize(alt_offs) + factor_len_bitsize(alt_len)
                    + AuxLoad(c, 2 + 4 * (src_pos + alt_len))
    IN  IF alt_len >= FACTOR_LENGTH_MIN /\ alt_cost <= best.cost
        THEN [cost |-> alt_cost, factor_offs |-> alt_offs, factor_len |-> alt_len]
        ELSE best

\* the choice kept after looking at one candidate: replaced only on a smaller cost
Candidate(c, best, src_pos, offs_idx, len_idx) ==
    LET alt_len == AuxLoad(c, len_idx)
        alt_offs == AuxLoad(c, offs_idx)
        alt_cost == 1 + factor_offs_bitsize(alt_offs) + factor_len_bitsize(alt_len)
                    + AuxLoad(c, 2 + 4 * (src_pos + alt_len))
    IN  IF alt_len >= FACTOR_LENGTH_MIN /\ alt_cost < best.cost
        THEN [cost |-> alt_cost, factor_offs |-> alt_offs, factor_len |-> alt_len]
        ELSE best

\* the faults of the loads one candidate makes
CandidateFault(c, src_pos, len_idx) ==
    IF AuxLoad(c, len_idx) >= FACTOR_LENGTH_MIN
    THEN AuxFault(AuxFault(c, len_idx), 2 + 4 * (src_pos + AuxLoad(c, len_idx)))
    ELSE AuxFault(c, len_idx)

\* one iteration of the for loop of optimize_factorization
OptimizeIter(c, src_pos) ==
    LET lit == [cost |-> 9 + AuxLoad(c, 2 + 4 * (src_pos + 1)),
                factor_offs |-> 0, factor_len |-> 1]
        viaPsv == Candidate(c, lit, src_pos, 0 + 4 * src_pos, 1 + 4 * src_pos)
        viaNsv == Candidate(c, viaPsv, src_pos, 2 + 4 * src_pos, 3 + 4 * src_pos)
        c0 == CandidateFault(CandidateFault(AuxFault(c, 2 + 4 * (src_pos + 1)),
                                            src_pos, 1 + 4 * src_pos),
                             src_pos, 3 + 4 * src_pos)
    IN  AuxStore(AuxStore(AuxStore(c0, 0 + 4 * src_pos, viaNsv.factor_offs),
                          1 + 4 * src_pos, viaNsv.factor_len),
                 2 + 4 * src_pos, viaNsv.cost)

\* optimize_factorization up to its loop: the cost after the last position.
\* With src_len = 0 the size_t loop index starts at SIZE_MAX (-1 here) and the
\* first record the loop touches lies before the array.
OptimizeEnter(c) ==
    LET c0 == [AuxStore(c, 2 + 4 * c.src_len, 0) EXCEPT !.aux_factorized = c.aux]
    IN  IF c.src_len = 0 THEN AuxFault(c0, 1 + 4 * (-1)) ELSE c0

write_token(c, val) == write_bit(c, val)

write_factor_offs(c, val) ==
    Then(write_vnibble(c, (val - FACTOR_OFFSET_MIN) \div 256),
         LAMBDA c1 : write_u8(c1, (val - FACTOR_OFFSET_MIN) % 256))

write_factor_len(c, val) == write_gr3(c, val - FACTOR_LENGTH_MIN)

write_factor(c, factor_offs, factor_len) ==
    Then(write_factor_offs(c, factor_offs),
         LAMBDA c1 : write_factor_len(c1, factor_len))

\* an emit_encoding that steps one position too far after a factor
EmitTokenOvershoot(c) ==
    LET factor_len == AuxLoad(c, 1 + 4 * c.src_pos)
        factor_offs == AuxLoad(c, 0 + 4 * c.src_pos)
    IN  IF factor_len = 1
        THEN Then(write_token(c, SALZ_TOKEN_TYPE_LITERAL), LAMBDA c1 : cpy_literal(c1))
        ELSE Then(write_token(c, SALZ_TOKEN_TYPE_FACTOR),
                  LAMBDA c1 :
                    Then(write_factor(c1, factor_offs, factor_len),
                         LAMBDA c2 : Ok([c2 EXCEPT !.src_pos = @ + factor_len + 1])))

\* one iteration of the while loop of emit_encoding
EmitToken(c) ==
    LET factor_len == AuxLoad(c, 1 + 4 * c.src_pos)
        factor_offs == AuxLoad(c, 0 + 4 * c.src_pos)
    IN  IF factor_len = 1
        THEN Then(write_token(c, SALZ_TOKEN_TYPE_LITERAL), LAMBDA c1 : cpy_literal(c1))
        ELSE Then(write_token(c, SALZ_TOKEN_TYPE_FACTOR),
                  LAMBDA c1 :
                    Then(write_factor(c1, factor_offs, factor_len),
                         LAMBDA c2 : Ok([c2 EXCEPT !.src_pos = @ + factor_len])))

\* the loop of finalize_encoding over the last 8 bytes
RECURSIVE TailLiterals(_, _)
TailLiterals(c, i) ==
    IF ~(i < TAIL_LEN) THEN Ok(c)
    ELSE Then(write_token(c, SALZ_TOKEN_TYPE_LITERAL),
              LAMBDA c1 : Then(cpy_literal(c1), LAMBDA c2 : TailLiterals(c2, i + 1)))

\* the stream header (type << 24) | (length & 0xffffff)
StreamHdr(type, length) == type * 16777216 + (length % 16777216)

\* a finalisation that compares the body without its header with src_len + 4
UsePlainLate(dst_pos, src_len) == dst_pos - 4 > src_len + 4

UsePlainNever(dst_pos, src_len) == FALSE

\* a finalisation that keeps a salz segment of up to src_len + 8 bytes
UsePlainAbove8(dst_pos, src_len) == dst_pos > src_len + 8

\* whether finalisation discards the salz body for the plain form
UsePlain(dst_pos, src_len) == dst_pos > src_len + 4

\* the last accumulator of finalize_encoding: the unused low bits are shifted in
\* and the word is stored at its reserved slot
FlushLast(c1) ==
    Fault([c1 EXCEPT !.bits = Shl64(@, c1.bits_avail),
                     !.body_end = c1.dst_pos,
                     !.dst = write_u64_raw(@, c1.bits_pos, Shl64(c1.bits, c1.bits_avail))],
          ~InBuf(c1.dst_len, c1.bits_pos, 8), "enc_store_oob")

\* the choice of the stream type and the header of finalize_encoding
WriteHeader(c2) ==
    IF UsePlain(c2.dst_pos, c2.src_len)
    THEN IF c2.src_len + 4 > c2.dst_len THEN Fail(c2)
         ELSE Ok([c2 EXCEPT
                    !.dst = write_u32_raw(salz_memcpy(@, 4, c2.src, 0, c2.src_len),
                                          0, StreamHdr(SALZ_STREAM_TYPE_PLAIN, c2.src_len)),
                    !.dst_pos = c2.src_len + 4])
    ELSE Ok([c2 EXCEPT
               !.dst = write_u32_raw(@, 0,
                         StreamHdr(SALZ_STREAM_TYPE_SALZ, c2.dst_pos - 4))])

finalize_encoding(c) ==
    Then(TailLiterals([c EXCEPT !.src_len = @ + TAIL_LEN], 0),
         LAMBDA c1 : WriteHeader(FlushLast(c1)))

\* Get worst case length for encoded segment (salz.h)
salz_encoded_len_max(n) == 4 + n + ((((n + 64 - 1) \div 64) * 64) \div 8)

\* a buffer of n bytes nobody has written
FreshBuf(n) == [i \in 0..(Min(n, Window) - 1) |-> Uninit]

\* no context (a NULL salz_io_ctx pointer)
NoCtx ==
    [null |-> TRUE, src |-> <<>>, src_len |-> 0, src_pos |-> 0,
     dst |-> <<>>, dst_len |-> 0, dst_pos |-> 0,
     bits |-> Zero64, bits_avail |-> 0, bits_pos |-> 0,
     sa |-> <<>>, sa_len |-> 0, aux |-> <<>>, aux_len |-> 0, aux_null |-> FALSE,
     prev_psv |-> -1, prev_psv_len |-> 0, prev_nsv |-> -1, prev_nsv_len |-> 0,
     stream_type |-> 0, body_end |-> 0, sa_err |-> FALSE, fault |-> {},
     \* history: the suffix array as build_psvnsv_array was given it, and the
     \* positions whose PSV/NSV record was stored, in store order
     sa_given |-> <<>>, psvnsv_written |-> <<>>,
     \* history: the auxiliary array as optimize_factorization was given it
     aux_factorized |-> <<>>,
     \* history: for each byte of dst stored by a token, the position at which
     \* the token that stored it last begins
     dst_writer |-> <<>>,
     \* whether a 64-bit shift by 64 gives 0 in this build
     shl64_zero |-> FALSE]

\* the context encode_ctx_create returns, NoCtx when it returns NULL.
\* fail names the allocation that fails: "ctx", "sa", "aux" or "none".
encode_ctx_create(src, src_len, dst, dst_len, fail) ==
    LET n == src_len - TAIL_LEN
        sa_len == n + 2
        aux_len == 4 * (n + 1)
    IN  IF fail = "ctx" THEN NoCtx
        ELSE IF fail = "sa" THEN NoCtx
        \* the result of the second calloc is not looked at: sa is tested again
        ELSE IF dst_len < 4 THEN NoCtx
        ELSE [NoCtx EXCEPT
                !.null = FALSE,
                !.src = src, !.src_len = n, !.src_pos = 0,
                !.dst = dst, !.dst_len = dst_len, !.dst_pos = 4,
                !.bits = Zero64, !.bits_avail = 0, !.bits_pos = 0,
                !.sa = [i \in 0..(sa_len - 1) |-> 0], !.sa_len = sa_len,
                !.aux = IF fail = "aux" THEN <<>> ELSE [i \in 0..(aux_len - 1) |-> 0],
                !.aux_len = aux_len, !.aux_null = (fail = "aux"),
                !.prev_psv = -1, !.prev_psv_len = 0,
                !.prev_nsv = -1, !.prev_nsv_len = 0]

\* the allocations of encode_ctx_create that are live when it returns, and the
\* frees it made on its fail path (free(NULL) frees nothing)
\* free of each named pointer in turn: a pointer whose allocation was made is
\* released (and recorded), free(NULL) does nothing
RECURSIVE FreeAll(_, _)
FreeAll(h, names) ==
    IF names = <<>> THEN h
    ELSE FreeAll(IF Head(names) \in h.made
                 THEN [h EXCEPT !.live = @ \ {Head(names)},
                                !.frees = Append(@, Head(names))]
                 ELSE h,
                 Tail(names))

\* the heap once the allocations of the set made have succeeded
Allocated(made) == [made |-> made, live |-> made, frees |-> <<>>]

\* the allocations encode_ctx_create made (in the order ctx, sa, aux, up to the
\* first failure it notices) and the frees of its fail path
EncodeCreateHeap(dst_len, fail) ==
    IF fail = "ctx" THEN Allocated({})
    ELSE IF fail = "sa" THEN FreeAll(Allocated({"ctx"}), <<"sa", "aux", "ctx">>)
    ELSE LET h == Allocated(IF fail = "aux" THEN {"ctx", "sa"} ELSE {"ctx", "sa", "aux"})
         IN  IF dst_len < 4 THEN FreeAll(h, <<"sa", "aux", "ctx">>) ELSE h

\* the allocation decode_ctx_create made and the free of its fail path
DecodeCreateHeap(null, fail) ==
    IF fail = "ctx" THEN Allocated({})
    ELSE IF null THEN FreeAll(Allocated({"ctx"}), <<"ctx">>)
    ELSE Allocated({"ctx"})

\* an encode_ctx_destroy that forgets the auxiliary array
encode_ctx_destroy_leak(h) == FreeAll(h, <<"sa", "ctx">>)

encode_ctx_destroy(h) == FreeAll(h, <<"sa", "aux", "ctx">>)

decode_ctx_destroy(h) == FreeAll(h, <<"ctx">>)

(***************************************************************************)
(* Decoding-only I/O context functions.                                    *)
(***************************************************************************)
\* src + 4: the stream repositioned right after the header
SkipHeader(src) == [i \in {j - 4 : j \in (DOMAIN src) \ (0..3)} |-> src[i + 4]]

\* a decode_ctx_create that does not look at the stream type
decode_ctx_create_any_type(src, src_len, dst, dst_len, fail) ==
    IF fail = "ctx" THEN NoCtx
    ELSE IF src_len < 4 THEN NoCtx
    ELSE
      LET stream_type == HdrType(src)
          stream_len == HdrLen(src)
      IN  IF stream_len > src_len - 4 THEN NoCtx
          ELSE [NoCtx EXCEPT
                  !.null = FALSE,
                  !.stream_type = stream_type,
                  !.src = SkipHeader(src),
                  !.src_len = stream_len, !.src_pos = 0,
                  !.dst = dst, !.dst_len = dst_len, !.dst_pos = 0,
                  !.bits = Zero64, !.bits_avail = 0]

\* the context decode_ctx_create returns, NoCtx when it returns NULL
decode_ctx_create(src, src_len, dst, dst_len, fail) ==
    IF fail = "ctx" THEN NoCtx
    ELSE IF src_len < 4 THEN NoCtx
    ELSE
      LET stream_type == HdrType(src)
          stream_len == HdrLen(src)
      IN  IF stream_type >= SALZ_STREAM_TYPE_MAX THEN NoCtx
          ELSE IF stream_len > src_len - 4 THEN NoCtx
          ELSE [NoCtx EXCEPT
                  !.null = FALSE,
                  !.stream_type = stream_type,
                  !.src = SkipHeader(src),
                  !.src_len = stream_len, !.src_pos = 0,
                  !.dst = dst, !.dst_len = dst_len, !.dst_pos = 0,
                  !.bits = Zero64, !.bits_avail = 0]

OkV(c, v) == [ok |-> TRUE, c |-> c, v |-> v]
FailV(c) == [ok |-> FALSE, c |-> c, v |-> 0]

\* the number a word below 2^31 holds
ValOf(w) ==
    LET RECURSIVE Acc(_, _)
        Acc(i, a) == IF i > 64 THEN a ELSE Acc(i + 1, 2 * a + w[i])
    IN  Acc(34, 0)

read_u8(c) ==
    IF c.src_pos >= c.src_len THEN FailV(c)
    ELSE OkV([c EXCEPT !.src_pos = @ + 1], c.src[c.src_pos])

read_u64(c) ==
    IF c.src_pos + 8 > c.src_len THEN FailV(c)
    ELSE OkV([c EXCEPT !.src_pos = @ + 8], read_u64_raw(c.src, c.src_pos))

\* a step that gives no value followed by steps K that give one
ThenQ(r, K(_)) == IF ~r.ok THEN FailV(r.c) ELSE K(r.c)

\* a step that gives a value followed by steps K that give none
ThenF(r, K(_, _)) == IF ~r.ok THEN Fail(r.c) ELSE K(r.c, r.v)

queue_bits(c) ==
    ThenF(read_u64(c), LAMBDA c1, v : Ok([c1 EXCEPT !.bits = v, !.bits_avail = 64]))

\* the common prologue "if (bits_avail == 0 && !queue_bits(ctx)) return false"
QueueIfEmpty(c) == IF c.bits_avail = 0 THEN queue_bits(c) ELSE Ok(c)

read_bit(c) ==
    ThenQ(QueueIfEmpty(c),
          LAMBDA c1 : OkV([c1 EXCEPT !.bits = Shl64(@, 1), !.bits_avail = @ - 1],
                          c1.bits[1]))

\* the part of read_bits that takes the bits left in the accumulator, queues the
\* next one and takes the rest from it
ReadBitsStraddle(c1, count) ==
    ThenQ(queue_bits(c1),
          LAMBDA c2 :
            OkV([c2 EXCEPT !.bits = Shl64(@, count - c1.bits_avail),
                           !.bits_avail = @ - (count - c1.bits_avail)],
                ValOf(Or64(Shl64(Shr64(c1.bits, 64 - c1.bits_avail),
                                 count - c1.bits_avail),
                           Shr64(c2.bits, 64 - (count - c1.bits_avail))))))

\* 1 <= count <= 31
read_bits(c, count) ==
    ThenQ(QueueIfEmpty(c),
          LAMBDA c1 :
            IF count <= c1.bits_avail
            THEN OkV([c1 EXCEPT !.bits = Shl64(@, count), !.bits_avail = @ - count],
                     ValOf(Shr64(c1.bits, 64 - count)))
            ELSE ReadBitsStraddle(c1, count))

\* a read_unary that counts 64 zeros for every accumulator it finds empty
RECURSIVE UnaryZeros64(_, _)
UnaryZeros64(c, res) ==
    IF c.bits # Zero64 THEN OkV(c, res)
    ELSE ThenQ(queue_bits(c), LAMBDA c1 : UnaryZeros64(c1, res + 64))

\* the while loop of read_unary: whole accumulators of zeros
RECURSIVE UnaryZeros(_, _)
UnaryZeros(c, res) ==
    IF c.bits # Zero64 THEN OkV(c, res)
    ELSE ThenQ(queue_bits(c), LAMBDA c1 : UnaryZeros(c1, res + c.bits_avail))

\* the end of read_unary: the zeros before the first set bit, and the bit, are taken
UnaryLast(c, res, last_zeros) ==
    OkV(Fault([c EXCEPT !.bits = IF last_zeros + 1 = 64 THEN Shl64By64(c, @)
                                 ELSE Shl64(@, last_zeros + 1),
                        !.bits_avail = @ - (last_zeros + 1)],
              last_zeros + 1 = 64, "shift_ub"),
        res + last_zeros)

read_unary(c) ==
    ThenQ(QueueIfEmpty(c),
          LAMBDA c1 :
            ThenV(UnaryZeros(c1, 0),
                  LAMBDA c2, res : UnaryLast(c2, res, Clz64(c2.bits))))

read_gr3(c) ==
    ThenV(read_unary(c),
          LAMBDA c1, var :
            ThenV(read_bits(c1, 3), LAMBDA c2, fixed : OkV(c2, (var * 8) + fixed)))

read_nibble(c) == read_bits(c, 4)

\* (x + 1) << 3 in uint32_t arithmetic; a result of 2^31 or more is held as the
\* negative number with the same 32 bits
Inc32Shl3(x) ==
    LET low == ((x % Pow2(29)) + 1) % Pow2(29)
    IN  IF low >= Pow2(28) THEN (low - Pow2(29)) * 8 ELSE low * 8

\* the value after one more nibble: round 1 starts it, rounds 2..11 continue it
VnibbleAcc(res, nibble, round) ==
    IF round = 1 THEN nibble % 8 ELSE Inc32Shl3(res) + (nibble % 8)

\* the unrolled rounds of read_vnibble; round 11 returns whatever its nibble's
\* high bit is
RECURSIVE VnibbleRound(_, _, _)
VnibbleRound(c, res, round) ==
    ThenV(read_nibble(c),
          LAMBDA c1, nibble :
            IF nibble >= 8 \/ round = 11
            THEN OkV(c1, VnibbleAcc(res, nibble, round))
            ELSE VnibbleRound(c1, VnibbleAcc(res, nibble, round), round + 1))

read_vnibble(c) == VnibbleRound(c, 0, 1)

(***************************************************************************)
(* Decoding functions.                                                     *)
(***************************************************************************)
cpy_plain_stream(c) ==
    IF c.src_len > c.dst_len THEN Fail(c)
    ELSE Ok([c EXCEPT !.dst = salz_memcpy(@, 0, c.src, 0, c.src_len),
                      !.dst_pos = c.src_len])

read_token(c) == read_bit(c)

read_factor_offs(c) ==
    ThenV(read_vnibble(c),
          LAMBDA c1, hi :
            ThenV(read_u8(c1),
                  LAMBDA c2, lo : OkV(c2, ((hi * 256) + lo) + FACTOR_OFFSET_MIN)))

read_factor_len(c) ==
    ThenV(read_gr3(c), LAMBDA c1, v : OkV(c1, v + FACTOR_LENGTH_MIN))

inc1 == <<0, 1, 2, 1, 4, 4, 4, 4>>
inc2_flat == <<0, 1, 2, 2, 4, 4, 4, 4>>
inc2 == <<0, 1, 2, 2, 4, 3, 2, 1>>

\* n bytes copied inside the destination buffer from index s to index d (a
\* byte assignment or a memcpy of non-overlapping ranges)
DstCopy(c, d, s, n) ==
    Fault(Fault(Fault([c EXCEPT !.dst = StoreBytes(@, d, LoadBytes(c.dst, s, n)),
                                !.dst_writer = Stamp(@, DOMAIN c.dst, d, n, c.dst_pos)],
                      s < 0, "dec_load_before"),
                s + n > c.dst_len, "dec_load_oob"),
          ~InBuf(c.dst_len, d, n), "dec_store_oob")

\* the while (dst < end) loop of cpy_factor
RECURSIVE CopyLoop(_, _, _, _)
CopyLoop(c, d, s, end) ==
    IF ~(d < end) THEN c
    ELSE CopyLoop(DstCopy(c, d, s, 8), d + 8, s + 8, end)

FactorCopyNoOverlap(c, factor_offs, factor_len) ==
    CopyLoop(c, c.dst_pos, c.dst_pos - factor_offs, c.dst_pos + factor_len)

\* the copy of cpy_factor once offset and length are read and the length fits
FactorCopy(c, factor_offs, factor_len) ==
    LET d == c.dst_pos
        s == d - factor_offs
        end == d + factor_len
    IN  IF factor_offs < 8
        THEN LET c1 == DstCopy(DstCopy(DstCopy(DstCopy(c, d, s, 1),
                                               d + 1, s + 1, 1),
                                       d + 2, s + 2, 1),
                               d + 3, s + 3, 1)
                 c2 == DstCopy(c1, d + 4, s + inc1[factor_offs + 1], 4)
             IN  CopyLoop(c2, d + 8, s + inc2[factor_offs + 1], end)
        ELSE CopyLoop(c, d, s, end)

cpy_factor(c) ==
    ThenF(read_factor_offs(c),
          LAMBDA c1, factor_offs :
            ThenF(read_factor_len(c1),
                  LAMBDA c2, factor_len :
                    IF c2.dst_pos + factor_len > c2.dst_len THEN Fail(c2)
                    ELSE Ok([FactorCopy(c2, factor_offs, factor_len)
                               EXCEPT !.dst_pos = @ + factor_len])))

\* one iteration of the while loop of decode
DecodeToken(c) ==
    ThenF(read_token(c),
          LAMBDA c1, token :
            IF token = SALZ_TOKEN_TYPE_LITERAL THEN cpy_literal(c1)
            ELSE cpy_factor(c1))

(***************************************************************************)
(* Inputs.                                                                 *)
(***************************************************************************)
\* the first n bytes of a buffer
Prefix(m, n) == [i \in {j \in DOMAIN m : j < n} |-> m[i]]

ToMem(q) == [i \in 0..(Len(q) - 1) |-> q[i + 1]]

Alphabet == {97, 98}

\* the last 8 bytes of the enumerated blocks
TailBytes == <<1, 2, 3, 4, 5, 6, 7, 8>>

\* a 47-byte block: "abc" four times, every other byte of the prefix distinct
Src47 ==
    <<97, 98, 99, 100, 97, 98, 99, 101, 97, 98, 99, 102, 97, 98, 99>>
    \o [i \in 1..24 |-> 102 + i] \o TailBytes

\* a run of one byte
SrcRun == [i \in 1..24 |-> 97] \o TailBytes

\* "abc" eight times
SrcPeriod3 == [i \in 1..24 |-> 97 + ((i - 1) % 3)] \o TailBytes

\* "abcdefghij" three times
SrcPeriod10 == [i \in 1..30 |-> 97 + ((i - 1) % 10)] \o TailBytes

\* 78 bytes that are all different: every token is a literal and the tokens of
\* the prefix take more than one accumulator
SrcDistinct == [i \in 1..70 |-> 30 + i] \o TailBytes

\* two runs of one byte around another byte, and a run of a second byte
SrcMixed == [i \in 1..28 |-> IF i = 13 THEN 98 ELSE IF i > 22 THEN 99 ELSE 97] \o TailBytes

\* the ASCII bytes of "abracadabra" followed by 8 zero bytes
SrcAbracadabra ==
    <<97, 98, 114, 97, 99, 97, 100, 97, 98, 114, 97>> \o [i \in 1..8 |-> 0]

\* "bcdefghijk", "abcx", "abcdefghijk": at the second "abc" a literal followed
\* by the 10-byte factor is cheaper than the 3-byte factor that starts there
SrcLazy ==
    <<98, 99, 100, 101, 102, 103, 104, 105, 106, 107>> \o <<97, 98, 99, 120>>
    \o <<97, 98, 99, 100, 101, 102, 103, 104, 105, 106, 107>> \o TailBytes

\* a block on which two choices of the optimiser cost the same: "abcx", "bcdy",
\* "abcd" (at the second "abc" the 3-byte factor followed by a literal costs
\* what a literal followed by the factor "bcd" costs), then "efgx", "efgz",
\* "efgy" (at the third "efg" the PSV and the NSV factor cost the same)
SrcTies ==
    <<97, 98, 99, 120, 98, 99, 100, 121, 97, 98, 99, 100>>
    \o <<101, 102, 103, 120, 101, 102, 103, 122, 101, 102, 103, 121>> \o TailBytes

\* blocks of one repeated byte, the 8 tail bytes included
SrcSame == {[i \in 1..n |-> 120] : n \in {12, 13, 18, 20, 33}}

\* the source blocks: every prefix over Alphabet up to MaxPrefix bytes followed
\* by the tail, and the named blocks
Sources ==
    {ToMem(q \o TailBytes) : q \in UNION {[1..n -> Alphabet] : n \in 0..MaxPrefix}}
    \cup {ToMem(Src47), ToMem(SrcRun), ToMem(SrcPeriod3), ToMem(SrcPeriod10),
          ToMem(SrcDistinct), ToMem(SrcMixed), ToMem(SrcAbracadabra), ToMem(SrcLazy),
          ToMem(SrcTies)}
    \cup {ToMem(q) : q \in SrcSame}

MemLen(m) == Cardinality(DOMAIN m)

\* destination capacities the caller of salz_encode_safe passes
EncCaps(n) == {3, 4, 12, n + 4, salz_encoded_len_max(n)}

AllocFails == {"none", "ctx", "sa", "aux"}

\* tokens of hand-made salz streams: <<0, 0, byte>> or <<1, offs, len>>
CraftTokens == {<<0, 0, 7>>} \cup {<<1, o, l>> : o \in {1, 2, 8}, l \in {3, 9}}

CraftSeqs == UNION {[1..n -> CraftTokens] : n \in 1..MaxTokens}

CraftCaps == {0, 4, 16}

\* the tokens are written with the encoder's writer into a buffer large enough
RECURSIVE CraftWrite(_, _)
CraftWrite(c, toks) ==
    IF toks = <<>> THEN c
    ELSE With(write_token(c, Head(toks)[1]),
              LAMBDA r :
                With(IF Head(toks)[1] = SALZ_TOKEN_TYPE_LITERAL
                     THEN write_u8(r.c, Head(toks)[3])
                     ELSE write_factor(r.c, Head(toks)[2], Head(toks)[3]),
                     LAMBDA r2 : CraftWrite(r2.c, Tail(toks))))

\* the segment of a written context: its last accumulator and a type-1 header
CraftClose(c1) ==
    Prefix(write_u32_raw(write_u64_raw(c1.dst, c1.bits_pos, Shl64(c1.bits, c1.bits_avail)),
                         0, StreamHdr(SALZ_STREAM_TYPE_SALZ, c1.dst_pos - 4)),
           c1.dst_pos)

\* a type-1 segment holding the given tokens
CraftSegment(toks) ==
    CraftClose(CraftWrite([NoCtx EXCEPT !.null = FALSE, !.dst = FreshBuf(64),
                                        !.dst_len = 64, !.dst_pos = 4],
                          toks))

(***************************************************************************)
(* salz_encode_safe.                                                       *)
(***************************************************************************)
\* faults after which the process does not go on: an access through a NULL
\* array or outside the scratch arrays, a failed assert
Crashing(c) == c.fault \cap {"null_deref", "aux_oob", "sa_oob", "assert"} # {}

\* whether a step from context c0 to c1 ends the process: one that made an
\* access outside a buffer or an undefined shift may crash or go on
CrashChoice(c0, c1) == IF c1.fault = c0.fault THEN {FALSE} ELSE BOOLEAN

Init ==
    /\ pc = "idle"
    /\ plain = <<>> /\ plain_len = 0
    /\ enc = <<>> /\ enc_dst_len = 0 /\ enc_cap = 0 /\ enc_ret = 2
    /\ alloc_fail = "none"
    /\ ctx = NoCtx
    /\ loc = [top |-> 0, i |-> 0]
    /\ parse = <<>>
    /\ seg = <<>> /\ seg_len = 0 /\ seg_kind = "none"
    /\ dec_dst_len = 0 /\ dec_cap = 0 /\ dec_ret = 2 /\ dec_alloc_fail = "none"
    /\ out = <<>>
    /\ heap = Allocated({})

decVars == <<seg, seg_len, seg_kind, dec_dst_len, dec_cap, dec_ret, dec_alloc_fail, out>>
encIn == <<plain, plain_len, enc_cap, alloc_fail>>


\* a return that stores the cursor in *dst_len on every path
EncReturnStoresLen(c, ret) ==
    /\ pc' = "enc_done"
    /\ ctx' = c
    /\ enc' = c.dst
    /\ enc_ret' = ret
    /\ enc_dst_len' = c.dst_pos
    /\ heap' = encode_ctx_destroy(heap)

\* "out:" of salz_encode_safe and its return
EncReturn(c, ret) ==
    /\ pc' = "enc_done"
    /\ ctx' = c
    /\ enc' = c.dst
    /\ enc_ret' = ret
    /\ enc_dst_len' = IF ret = 0 THEN c.dst_pos ELSE enc_dst_len
    /\ heap' = encode_ctx_destroy(heap)

\* salz_encode_safe is called with a NULL buffer
EncodeNull ==
    /\ pc = "idle"
    /\ pc' = "enc_done"
    /\ enc_ret' = -1
    /\ UNCHANGED <<encIn, enc, enc_dst_len, ctx, loc, parse, decVars, heap>>

\* salz_encode_safe up to the return of encode_ctx_create
EncodeCall ==
    /\ pc = "idle"
    /\ \E s \in Sources, f \in AllocFails :
         \E cap \in EncCaps(MemLen(s)) :
           LET c == encode_ctx_create(s, MemLen(s), FreshBuf(cap), cap, f)
           IN  /\ plain' = s
               /\ plain_len' = MemLen(s)
               /\ enc_cap' = cap
               /\ enc_dst_len' = cap
               /\ alloc_fail' = f
               /\ ctx' = c
               /\ enc' = FreshBuf(cap)
               /\ heap' = EncodeCreateHeap(cap, f)
               /\ enc_ret' = IF c.null THEN -1 ELSE 2
               /\ pc' = IF c.null THEN "enc_done" ELSE "build_sa"
    /\ UNCHANGED <<loc, parse, decVars>>

\* build_suffix_array: the suffix sorter succeeds or reports failure
BuildSuffixArray ==
    /\ pc = "build_sa"
    /\ \E ok \in BOOLEAN :
         IF ok
         THEN /\ ctx' = build_suffix_array(ctx)
              /\ pc' = "psvnsv"
              /\ UNCHANGED <<enc, enc_dst_len, enc_ret, heap>>
         ELSE EncReturn([ctx EXCEPT !.sa_err = TRUE], -1)
    /\ UNCHANGED <<encIn, loc, parse, decVars>>

\* build_psvnsv_array: the sentinels, then the loop from i = 1 with top = 0
BuildPsvNsv ==
    /\ pc = "psvnsv"
    /\ ctx' = PsvNsvEnter(ctx)
    /\ loc' = [top |-> 0, i |-> 1]
    /\ pc' = "psvnsv_loop"
    /\ UNCHANGED <<encIn, enc, enc_dst_len, enc_ret, parse, decVars, heap>>

\* one test of the while loop inside the for loop of build_psvnsv_array
PsvNsvStep ==
    /\ pc = "psvnsv_loop"
    /\ loc.i < ctx.src_len + 2
    /\ LET r == PsvNsvIter(ctx, loc.top, loc.i)
       IN  /\ ctx' = r.c
           /\ loc' = [top |-> r.top, i |-> r.i]
           /\ pc' = IF Crashing(r.c) THEN "crashed" ELSE "psvnsv_loop"
    /\ UNCHANGED <<encIn, enc, enc_dst_len, enc_ret, parse, decVars, heap>>

\* factorize: position 0 is a literal, then the loop from pos = 1
Factorize ==
    /\ pc = "psvnsv_loop"
    /\ ~(loc.i < ctx.src_len + 2)
    /\ ctx' = FactorizeEnter(ctx)
    /\ loc' = [top |-> 0, i |-> 1]
    /\ pc' = IF Crashing(ctx') THEN "crashed" ELSE "factorize_loop"
    /\ UNCHANGED <<encIn, enc, enc_dst_len, enc_ret, parse, decVars, heap>>

FactorizeStep ==
    /\ pc = "factorize_loop"
    /\ loc.i < ctx.src_len
    /\ ctx' = FactorizeIter(ctx, loc.i)
    /\ loc' = [loc EXCEPT !.i = @ + 1]
    /\ pc' = IF Crashing(ctx') THEN "crashed" ELSE "factorize_loop"
    /\ UNCHANGED <<encIn, enc, enc_dst_len, enc_ret, parse, decVars, heap>>

\* optimize_factorization: cost 0 at the end, then the loop from src_len - 1
OptimizeFactorization ==
    /\ pc = "factorize_loop"
    /\ ~(loc.i < ctx.src_len)
    /\ ctx' = OptimizeEnter(ctx)
    /\ loc' = [top |-> 0, i |-> ctx.src_len - 1]
    /\ pc' = IF Crashing(ctx') THEN "crashed" ELSE "optimize_loop"
    /\ UNCHANGED <<encIn, enc, enc_dst_len, enc_ret, parse, decVars, heap>>

OptimizeStep ==
    /\ pc = "optimize_loop"
    /\ loc.i # 0
    /\ ctx' = OptimizeIter(ctx, loc.i)
    /\ loc' = [loc EXCEPT !.i = @ - 1]
    /\ pc' = IF Crashing(ctx') THEN "crashed" ELSE "optimize_loop"
    /\ UNCHANGED <<encIn, enc, enc_dst_len, enc_ret, parse, decVars, heap>>

\* one iteration of emit_encoding's loop; a failed write returns -1
EmitStep ==
    /\ pc = "optimize_loop"
    /\ loc.i = 0
    /\ ~input_processed(ctx)
    /\ IF ctx.src_pos > ctx.src_len
       THEN /\ ctx' = Fault(ctx, TRUE, "assert")
            /\ pc' = "crashed"
            /\ UNCHANGED <<enc, enc_dst_len, enc_ret, parse, heap>>
       ELSE LET r == EmitToken(ctx)
            IN  /\ parse' = Append(parse, <<ctx.src_pos,
                                            AuxLoad(ctx, 0 + 4 * ctx.src_pos),
                                            AuxLoad(ctx, 1 + 4 * ctx.src_pos)>>)
                /\ \E crash \in CrashChoice(ctx, r.c) :
                     IF crash
                     THEN /\ ctx' = r.c
                          /\ pc' = "crashed"
                          /\ UNCHANGED <<enc, enc_dst_len, enc_ret, heap>>
                     ELSE IF r.ok
                     THEN /\ ctx' = r.c
                          /\ pc' = "optimize_loop"
                          /\ UNCHANGED <<enc, enc_dst_len, enc_ret, heap>>
                     ELSE EncReturn(r.c, -1)
    /\ UNCHANGED <<encIn, loc, decVars>>

\* the tokens of the loop of finalize_encoding: 8 literals from position n
TailParse(n) == [j \in 1..TAIL_LEN |-> <<n + (j - 1), 0, 1>>]

\* finalize_encoding and the return of salz_encode_safe
FinalizeEncoding ==
    /\ pc = "optimize_loop"
    /\ loc.i = 0
    /\ input_processed(ctx)
    /\ LET r == finalize_encoding(ctx)
       IN  /\ parse' = IF r.ok THEN parse \o TailParse(ctx.src_len) ELSE parse
           /\ \E crash \in CrashChoice(ctx, r.c) :
                IF crash
                THEN /\ ctx' = r.c
                     /\ pc' = "crashed"
                     /\ UNCHANGED <<enc, enc_dst_len, enc_ret, heap>>
                ELSE EncReturn(r.c, IF r.ok THEN 0 ELSE -1)
    /\ UNCHANGED <<encIn, loc, decVars>>

(***************************************************************************)
(* salz_decode_safe.                                                       *)
(***************************************************************************)
\* "out:" of salz_decode_safe and its return
DecReturn(c, ret) ==
    /\ pc' = "dec_done"
    /\ ctx' = c
    /\ out' = c.dst
    /\ dec_ret' = ret
    /\ dec_dst_len' = IF ret = 0 THEN c.dst_pos ELSE dec_dst_len
    /\ heap' = decode_ctx_destroy(heap)

encVars == <<plain, plain_len, enc, enc_dst_len, enc_cap, enc_ret, alloc_fail, loc,
            parse>>

\* salz_decode_safe up to the return of decode_ctx_create
StartDecode(s, n, kind, dst, cap, fail) ==
    LET c == decode_ctx_create(s, n, dst, cap, fail)
    IN  /\ seg' = s
        /\ seg_len' = n
        /\ seg_kind' = kind
        /\ dec_cap' = cap
        /\ dec_dst_len' = cap
        /\ ctx' = c
        /\ out' = dst
        /\ dec_alloc_fail' = fail
        /\ heap' = DecodeCreateHeap(c.null, fail)
        /\ dec_ret' = IF c.null THEN -1 ELSE 2
        /\ pc' = IF c.null THEN "dec_done"
                 ELSE IF c.stream_type = SALZ_STREAM_TYPE_PLAIN THEN "dec_plain"
                 ELSE "dec_loop"
        /\ UNCHANGED encVars

\* the encoder's segment is decoded, into several capacities
DecodeEncoded ==
    /\ pc = "enc_done" /\ enc_ret = 0
    /\ \E cap \in {plain_len, plain_len + 3, plain_len - 1}, fail \in {"none", "ctx"} :
         StartDecode(Prefix(enc, enc_dst_len), enc_dst_len, "encoded", FreshBuf(cap), cap, fail)

\* the encoder's segment with its last byte missing
DecodeTruncated ==
    /\ pc = "enc_done" /\ enc_ret = 0
    /\ StartDecode(Prefix(enc, enc_dst_len - 1), enc_dst_len - 1, "truncated",
                   FreshBuf(plain_len), plain_len, "none")

\* the encoder's segment with another type byte
DecodeBadType ==
    /\ pc = "enc_done" /\ enc_ret = 0
    /\ \E t \in {2, 3, 127} :
         StartDecode([Prefix(enc, enc_dst_len) EXCEPT ![3] = t], enc_dst_len, "badtype",
                     FreshBuf(plain_len), plain_len, "none")

\* fewer than 4 bytes of the encoder's segment
DecodeShort ==
    /\ pc = "enc_done" /\ enc_ret = 0
    /\ \E n \in 0..3 : StartDecode(Prefix(enc, n), n, "short", FreshBuf(plain_len), plain_len, "none")

\* a hand-made salz stream
DecodeCrafted ==
    /\ pc = "idle"
    /\ \E toks \in CraftSeqs, cap \in CraftCaps :
         LET s == CraftSegment(toks)
         IN  StartDecode(s, MemLen(s), "crafted", FreshBuf(cap), cap, "none")

DecodePlain ==
    /\ pc = "dec_plain"
    /\ With(cpy_plain_stream(ctx), LAMBDA r : DecReturn(r.c, IF r.ok THEN 0 ELSE -1))
    /\ UNCHANGED <<encVars, seg, seg_len, seg_kind, dec_cap, dec_alloc_fail>>

\* one iteration of decode's loop; a failed token returns -1
DecodeStep ==
    /\ pc = "dec_loop"
    /\ ~input_processed(ctx)
    /\ LET r == DecodeToken(ctx)
       IN  \E crash \in CrashChoice(ctx, r.c) :
             IF crash
             THEN /\ ctx' = r.c
                  /\ pc' = "crashed"
                  /\ UNCHANGED <<out, dec_ret, dec_dst_len, heap>>
             ELSE IF r.ok
             THEN /\ ctx' = r.c
                  /\ pc' = "dec_loop"
                  /\ UNCHANGED <<out, dec_ret, dec_dst_len, heap>>
             ELSE DecReturn(r.c, -1)
    /\ UNCHANGED <<encVars, seg, seg_len, seg_kind, dec_cap, dec_alloc_fail>>

\* decode's loop ends and salz_decode_safe returns 0
DecodeReturn ==
    /\ pc = "dec_loop"
    /\ input_processed(ctx)
    /\ DecReturn(ctx, 0)
    /\ UNCHANGED <<encVars, seg, seg_len, seg_kind, dec_cap, dec_alloc_fail>>

(***************************************************************************)
(* Blocks of about 16 MiB (the block salzcli passes at level 9, 1 << 24).  *)
(* Of such a block the model keeps the lengths, the positions, the last 8  *)
(* source bytes and the first 4 bytes of the destination; the suffix and   *)
(* auxiliary arrays are not kept.                                          *)
(***************************************************************************)
LargeLens == (LenCap - LargeSpan)..(LenCap + LargeSpan)

\* the last 8 bytes of a block of n bytes
LargeSrc(n) == [i \in (n - TAIL_LEN)..(n - 1) |-> TailBytes[(i - (n - TAIL_LEN)) + 1]]

\* accumulators flushed while m literals are written: one before every 64 tokens
Slots(m) == (m + 63) \div 64

\* the context of emit_encoding on a block of n bytes once its first m tokens
\* (m >= 1) are written and all of them are literals: slot k is reserved after
\* 64 * (k - 1) literals, every literal takes a bit of the accumulator and a
\* byte of the destination
LiteralsCtx(n, m, dst_len) ==
    [NoCtx EXCEPT
       !.null = FALSE,
       !.src = LargeSrc(n), !.src_len = n - TAIL_LEN, !.src_pos = m,
       !.dst = [i \in 0..3 |-> 0], !.dst_len = dst_len,
       !.dst_pos = 4 + (8 * Slots(m)) + m,
       !.bits = Zero64,
       !.bits_avail = (64 * Slots(m)) - m,
       !.bits_pos = 4 + (72 * (Slots(m) - 1)),
       !.sa_len = (n - TAIL_LEN) + 2, !.aux_len = 4 * ((n - TAIL_LEN) + 1)]

\* the context emit_encoding leaves for a block of n bytes in which no three
\* bytes occur twice, so that every token of its first n - 8 bytes is a literal
AllLiteralCtx(n, dst_len) == LiteralsCtx(n, n - TAIL_LEN, dst_len)

\* write_zeros(c, count) when the destination has room for every accumulator
\* the zeros need: the zeros that fit fill the current accumulator, the other
\* r zeros take (r + 63) \div 64 flushes with no byte written between them;
\* a whole accumulator of zeros is written by a shift of 64
ZerosBulk(c, count) ==
    IF count <= c.bits_avail
    THEN Fault([c EXCEPT !.bits = Shl64(@, count), !.bits_avail = @ - count],
               count = 64, "shift_ub")
    ELSE LET r == count - c.bits_avail
             k == (r + 63) \div 64
             first == write_u64_raw(c.dst, c.bits_pos, Shl64(c.bits, c.bits_avail))
         IN  Fault(Fault([c EXCEPT !.dst = [i \in DOMAIN first |->
                                             IF /\ i >= c.dst_pos
                                                /\ i < c.dst_pos + (8 * (k - 1))
                                             THEN 0 ELSE first[i]],
                                   !.bits = Zero64,
                                   !.bits_avail = (64 * k) - r,
                                   !.bits_pos = c.dst_pos + (8 * (k - 1)),
                                   !.dst_pos = @ + (8 * k)],
                         ~InBuf(c.dst_len, c.bits_pos, 8), "enc_store_oob"),
                   r >= 64, "shift_ub")

\* whether the destination has room for the accumulators of count zeros
ZerosRoom(c, count) ==
    count <= c.bits_avail
    \/ c.dst_pos + (8 * (((count - c.bits_avail) + 63) \div 64)) <= c.dst_len

\* write_factor for a factor whose length code holds a long run of zeros
LargeWriteFactor(c, factor_offs, factor_len) ==
    Then(write_factor_offs(c, factor_offs),
         LAMBDA c1 :
           Then(write_bit(ZerosBulk(c1, (factor_len - FACTOR_LENGTH_MIN) \div 8), 1),
                LAMBDA c2 :
                  write_bits(c2, U64((factor_len - FACTOR_LENGTH_MIN) % 8), 3)))

\* salz_encode_safe on such a block, with the destination salzcli gives it, up
\* to the return of emit_encoding
LargeEmit ==
    /\ pc = "idle"
    /\ \E n \in LargeLens :
         /\ plain' = LargeSrc(n)
         /\ plain_len' = n
         /\ enc_cap' = salz_encoded_len_max(n)
         /\ enc_dst_len' = salz_encoded_len_max(n)
         /\ ctx' = AllLiteralCtx(n, salz_encoded_len_max(n))
         /\ enc' = FreshBuf(4)
    /\ alloc_fail' = "none"
    /\ heap' = EncodeCreateHeap(4, "none")
    /\ enc_ret' = 2
    /\ loc' = [top |-> 0, i |-> 0]
    /\ pc' = "optimize_loop"
    /\ UNCHANGED <<parse, decVars>>

\* blocks of n bytes made of m bytes in which no three bytes occur twice, a run
\* of one other byte up to n - 8, and the tail: the block salzcli passes at
\* level 9, with prefixes around the one whose salz body is as long as the block
LargeRuns ==
    {<<LenCap, m>> : m \in ((LenCap - 1890402) - LargeSpan)..((LenCap - 1890402) + LargeSpan)}

\* salz_encode_safe on such a block up to the token of emit_encoding that
\* follows the first byte of the run: m + 1 literals are written
LargeRunEmit ==
    /\ pc = "idle"
    /\ \E b \in LargeRuns :
         /\ plain' = LargeSrc(b[1])
         /\ plain_len' = b[1]
         /\ enc_cap' = salz_encoded_len_max(b[1])
         /\ enc_dst_len' = salz_encoded_len_max(b[1])
         /\ ctx' = LiteralsCtx(b[1], b[2] + 1, salz_encoded_len_max(b[1]))
         /\ enc' = FreshBuf(4)
    /\ alloc_fail' = "none"
    /\ heap' = EncodeCreateHeap(4, "none")
    /\ enc_ret' = 2
    /\ loc' = [top |-> 0, i |-> 0]
    /\ pc' = "large_factor"
    /\ UNCHANGED <<parse, decVars>>

\* the iteration of emit_encoding at the second byte of the run: the record of
\* optimize_factorization there is the factor of offset 1 that covers the rest
\* of the run
LargeFactorStep ==
    /\ pc = "large_factor"
    /\ With(Then(write_token(ctx, SALZ_TOKEN_TYPE_FACTOR),
                 LAMBDA c1 :
                   Then(LargeWriteFactor(c1, 1, ctx.src_len - ctx.src_pos),
                        LAMBDA c2 : Ok([c2 EXCEPT !.src_pos = ctx.src_len]))),
            LAMBDA r :
              /\ parse' = Append(parse, <<ctx.src_pos, 1, ctx.src_len - ctx.src_pos>>)
              /\ \E crash \in CrashChoice(ctx, r.c) :
                   IF crash
                   THEN /\ ctx' = r.c
                        /\ pc' = "crashed"
                        /\ UNCHANGED <<enc, enc_dst_len, enc_ret, heap>>
                   ELSE IF r.ok
                   THEN /\ ctx' = r.c
                        /\ pc' = "optimize_loop"
                        /\ UNCHANGED <<enc, enc_dst_len, enc_ret, heap>>
                   ELSE EncReturn(r.c, -1))
    /\ UNCHANGED <<encIn, loc, decVars>>

\* the encoder's segment is decoded when the model keeps all of it that
\* salz_decode_safe reads: a plain one, or one whose length field is 0
LargeDecodeEncoded ==
    /\ pc = "enc_done" /\ enc_ret = 0
    /\ HdrType(enc) = SALZ_STREAM_TYPE_PLAIN \/ HdrLen(enc) = 0
    /\ DecodeEncoded

NextLarge ==
    \/ LargeEmit
    \/ LargeRunEmit
    \/ LargeFactorStep
    \/ FinalizeEncoding
    \/ LargeDecodeEncoded
    \/ DecodePlain
    \/ DecodeReturn

SpecLarge == Init /\ [][NextLarge]_vars

Next ==
    \/ EncodeNull
    \/ EncodeCall
    \/ BuildSuffixArray
    \/ BuildPsvNsv
    \/ PsvNsvStep
    \/ Factorize
    \/ FactorizeStep
    \/ OptimizeFactorization
    \/ OptimizeStep
    \/ EmitStep
    \/ FinalizeEncoding
    \/ DecodeEncoded
    \/ DecodeTruncated
    \/ DecodeBadType
    \/ DecodeShort
    \/ DecodeCrafted
    \/ DecodePlain
    \/ DecodeStep
    \/ DecodeReturn

Spec == Init /\ [][Next]_vars

\* The calls are sequential code on a running thread: while a call is in
\* progress its next step is taken (the caller need not start another call).
\* This is weak fairness of every step of a call. For EmitStep,
\* FinalizeEncoding and DecodeStep, WF_vars(A) is written out as
\* []<>~ENABLED <<A>>_vars \/ []<><<A>>_vars with the guard of A, a state
\* predicate, in the place of ENABLED <<A>>_vars: the action is enabled
\* exactly where its guard holds, and every step Spec takes from such a
\* state is a step of A.
SpecLive ==
    /\ Spec
    /\ WF_vars(BuildSuffixArray) /\ WF_vars(BuildPsvNsv) /\ WF_vars(PsvNsvStep)
    /\ WF_vars(Factorize) /\ WF_vars(FactorizeStep)
    /\ WF_vars(OptimizeFactorization) /\ WF_vars(OptimizeStep)
    /\ WF_vars(DecodePlain) /\ WF_vars(DecodeReturn)
    /\ \/ []<>(~(pc = "optimize_loop" /\ loc.i = 0 /\ ~input_processed(ctx)))
       \/ []<><<pc = "optimize_loop" /\ loc.i = 0 /\ ~input_processed(ctx)>>_vars
    /\ \/ []<>(~(pc = "optimize_loop" /\ loc.i = 0 /\ input_processed(ctx)))
       \/ []<><<pc = "optimize_loop" /\ loc.i = 0 /\ input_processed(ctx)>>_vars
    /\ \/ []<>(~(pc = "dec_loop" /\ ~input_processed(ctx)))
       \/ []<><<pc = "dec_loop" /\ ~input_processed(ctx)>>_vars

(***************************************************************************)
(* The copy of cpy_factor on its own: a destination holding dst_pos bytes  *)
(* that are all different, an offset that stays inside them and a length.  *)
(***************************************************************************)
\* largest offset (and number of bytes already decoded) of the copies
MaxOffs == 12

\* largest length of the copies
MaxFactorLen == 20

\* a decode context whose destination of cap bytes holds the bytes 1..p
CopyCtx(p, cap) ==
    [NoCtx EXCEPT !.null = FALSE,
                  !.dst = [i \in 0..(cap - 1) |-> IF i < p THEN i + 1 ELSE Uninit],
                  !.dst_len = cap, !.dst_pos = p]

\* cpy_factor from its capacity test on, for the offset and the length read;
\* the destination ends with the factor or 8 bytes after it
CpyFactorCopy ==
    /\ pc = "idle"
    /\ \E p \in 1..MaxOffs, factor_len \in FACTOR_LENGTH_MIN..MaxFactorLen, room \in {0, 8} :
         \E factor_offs \in FACTOR_OFFSET_MIN..p :
           /\ ctx' = [FactorCopy(CopyCtx(p, p + factor_len + room), factor_offs, factor_len)
                        EXCEPT !.dst_pos = @ + factor_len]
           /\ parse' = <<<<p, factor_offs, factor_len>>>>
    /\ pc' = "copied"
    /\ UNCHANGED <<encIn, enc, enc_dst_len, enc_ret, loc, decVars, heap>>

NextCopy == CpyFactorCopy

SpecCopy == Init /\ [][NextCopy]_vars

(***************************************************************************)
(* The variable-length codes alone: write_gr3 and write_vnibble by a       *)
(* writer with any number of free bits in its accumulator, and read_gr3    *)
(* and read_vnibble by a reader that has taken as many bits as that writer *)
(* had written.                                                             *)
(***************************************************************************)
\* largest value written with write_gr3
MaxGr == 567

\* write_vnibble is given every value up to MaxVnibble and the values next to
\* the larger size boundaries of encode_vnibble_le
MaxVnibble == 600
VnibbleEdges ==
    {4679, 4680, 37447, 37448, 299591, 299592, 2396743, 2396744,
     19173959, 19173960, 153391687, 153391688, 1227133511, 1227133512}

\* bytes of the destination of the writer
BitsCap == 32

\* an encoder whose accumulator, reserved at 0, has free_bits bits free and
\* holds ones, with the cursor after the slot
BitWriter(free_bits, zero) ==
    [NoCtx EXCEPT !.null = FALSE, !.shl64_zero = zero,
                  !.dst = FreshBuf(BitsCap), !.dst_len = BitsCap, !.dst_pos = 8,
                  !.bits_pos = 0, !.bits_avail = free_bits,
                  !.bits = [i \in 1..64 |-> IF i > free_bits THEN 1 ELSE 0]]

\* a decoder of what the writer w stored that has queued the slot at 0 and has
\* free_bits of its bits left
BitReader(w, free_bits) ==
    [NoCtx EXCEPT !.null = FALSE, !.shl64_zero = w.shl64_zero,
                  !.src = w.dst, !.src_len = w.dst_pos, !.src_pos = 8,
                  !.bits_avail = free_bits,
                  !.bits = IF free_bits = 0 THEN Zero64
                           ELSE Shl64(read_u64_raw(w.dst, 0), 64 - free_bits)]

\* the bits a writer that began with free_bits free bits at cursor 8 has written
BitsWritten(free_bits, c) == (free_bits - c.bits_avail) + (8 * (c.dst_pos - 8))

\* the writer after the write r and the store of its last accumulator, with the
\* record <<free bits before, value, free bits after, bits written>>
BitsStored(free_bits, val, r, kind) ==
    /\ r.ok
    /\ pc' = kind
    /\ ctx' = FlushLast(r.c)
    /\ parse' = <<<<free_bits, val, r.c.bits_avail, BitsWritten(free_bits, r.c)>>>>
    /\ UNCHANGED <<encIn, enc, enc_dst_len, enc_ret, loc, decVars, heap>>

\* the reader after the read r, with the record <<1, value read, free bits after>>
BitsTaken(r, kind) ==
    /\ pc' = kind
    /\ ctx' = r.c
    /\ parse' = Append(parse, <<IF r.ok THEN 1 ELSE 0, r.v, r.c.bits_avail>>)
    /\ UNCHANGED <<encIn, enc, enc_dst_len, enc_ret, loc, decVars, heap>>

WriteGr3 ==
    /\ pc = "idle"
    /\ \E free_bits \in 0..64, val \in 0..MaxGr, zero \in BOOLEAN :
         BitsStored(free_bits, val, write_gr3(BitWriter(free_bits, zero), val),
                    "gr3_written")

ReadGr3 ==
    /\ pc = "gr3_written"
    /\ BitsTaken(read_gr3(BitReader(ctx, parse[1][1])), "gr3_read")

WriteVnibble ==
    /\ pc = "idle"
    /\ \E free_bits \in 0..64, val \in (0..MaxVnibble) \cup VnibbleEdges :
         BitsStored(free_bits, val, write_vnibble(BitWriter(free_bits, FALSE), val),
                    "vnibble_written")

ReadVnibble ==
    /\ pc = "vnibble_written"
    /\ BitsTaken(read_vnibble(BitReader(ctx, parse[1][1])), "vnibble_read")

NextBits == WriteGr3 \/ ReadGr3 \/ WriteVnibble \/ ReadVnibble

SpecBits == Init /\ [][NextBits]_vars


(***************************************************************************)
(* The context of an all-literal block as AllLiteralCtx computes it is the *)
(* one the encoder reaches (checked on the blocks of Sources).             *)
(***************************************************************************)
AllLiteralCtxAgrees ==
    (/\ pc = "optimize_loop" /\ loc.i = 0 /\ input_processed(ctx) /\ ctx.src_len >= 1
     /\ \A k \in 1..Len(parse) : parse[k][3] = 1)
    => /\ AllLiteralCtx(plain_len, enc_cap).dst_pos = ctx.dst_pos
       /\ AllLiteralCtx(plain_len, enc_cap).bits_pos = ctx.bits_pos
       /\ AllLiteralCtx(plain_len, enc_cap).bits_avail = ctx.bits_avail
       /\ AllLiteralCtx(plain_len, enc_cap).bits = ctx.bits
       /\ AllLiteralCtx(plain_len, enc_cap).src_pos = ctx.src_pos
       /\ \A i \in 0..3 : AllLiteralCtx(plain_len, enc_cap).dst[i] = ctx.dst[i]

(***************************************************************************)
(* Properties.                                                             *)
(***************************************************************************)
\* salz_decode_safe has returned from decoding the segment the encoder produced
DecodedEncoded == pc = "dec_done" /\ seg_kind = "encoded" /\ dec_alloc_fail = "none"

\* the bytes of the decoded block the model keeps are those of the source
SameBytes == \A i \in (DOMAIN out) \cap (DOMAIN plain) : i < plain_len => out[i] = plain[i]

\* C1: round trip. Whenever salz_encode_safe succeeded on a block and its segment
\* is decoded into a destination of at least the block's length, salz_decode_safe
\* returns 0, reports the block's length and the destination holds the block's
\* bytes, for a salz (type 1) and for a plain (type 0) segment.
C1_RoundTrip ==
    (DecodedEncoded /\ dec_cap >= plain_len)
    => (dec_ret = 0 /\ dec_dst_len = plain_len /\ SameBytes)

\* C2: decoder bounds. No store of salz_decode_safe, the 4 + 4 byte prefix and the
\* 8-byte stores of cpy_factor included, goes to a destination index >= dst_len,
\* for any segment and any capacity.
C2_DecoderBounds == "dec_store_oob" \notin ctx.fault

\* C3: when a decoded factor's offset exceeds the bytes already written (so that
\* its copy reads before the start of the destination), salz_decode_safe returns
\* -1.
C3_OffsetRejected == (pc = "dec_done" /\ "dec_load_before" \in ctx.fault) => dec_ret = -1

\* the segment a successful salz_encode_safe left is plain: type 0, the source
\* length in the length field, the source bytes behind the header
PlainSegment ==
    /\ HdrType(enc) = SALZ_STREAM_TYPE_PLAIN
    /\ HdrLen(enc) = plain_len
    /\ enc_dst_len = plain_len + 4
    /\ \A i \in 0..(plain_len - 1) : enc[4 + i] = plain[i]

\* it is a salz segment: type 1, the body length in the length field
SalzSegment ==
    /\ HdrType(enc) = SALZ_STREAM_TYPE_SALZ
    /\ HdrLen(enc) = ctx.body_end - 4
    /\ enc_dst_len = ctx.body_end

\* C4 as the claim states it: the segment is plain when the length of the salz
\* body (the bytes after the 4-byte header) exceeds src_len + 4, and salz
\* otherwise.
C4_PlainIffBodyExceedsLenPlus4 ==
    (pc = "enc_done" /\ enc_ret = 0)
    => IF ctx.body_end - 4 > plain_len + 4 THEN PlainSegment ELSE SalzSegment

\* C4 as the code has it: for lengths that fit the 24-bit length field, the
\* segment is plain when the salz segment with its header would be longer than
\* src_len + 4, that is when the length of the salz body exceeds src_len, and
\* salz otherwise.
C4_PlainIffBodyExceedsLen ==
    (pc = "enc_done" /\ enc_ret = 0 /\ plain_len < LenCap /\ ctx.body_end - 4 < LenCap)
    => IF ctx.body_end - 4 > plain_len THEN PlainSegment ELSE SalzSegment

\* a block whose salz body is longer than the block by 1 to 4 bytes was encoded
C4_Witness ==
    /\ pc = "enc_done" /\ enc_ret = 0
    /\ ctx.body_end - 4 > plain_len /\ ctx.body_end - 4 <= plain_len + 4
    /\ HdrType(enc) = SALZ_STREAM_TYPE_PLAIN

\* C5: salz_encode_safe, given a destination of salz_encoded_len_max(src_len)
\* bytes and a block of at least 8 bytes, does not fail for lack of space: with
\* its allocations and the suffix sorting succeeding it returns 0.
C5_WorstCaseBound ==
    (/\ pc = "enc_done" /\ alloc_fail = "none" /\ ~ctx.sa_err
     /\ plain_len >= 8 /\ enc_cap = salz_encoded_len_max(plain_len))
    => enc_ret = 0

\* C6: header sanity. The first 4 bytes of the segment of a successful
\* salz_encode_safe hold a type in {0, 1} and the length of the segment less 4.
C6_HeaderSanity ==
    enc_ret = 0
    => (/\ HdrType(enc) \in {SALZ_STREAM_TYPE_PLAIN, SALZ_STREAM_TYPE_SALZ}
        /\ HdrLen(enc) = enc_dst_len - 4)

\* C7: factor validity. Every factor (offs, len) emit_encoding writes at position
\* p has 1 <= offs <= p, len >= 3 and p + len <= src_len - 8.
C7_FactorValidity ==
    \A k \in 1..Len(parse) :
        parse[k][3] # 1
        => (/\ 1 <= parse[k][2] /\ parse[k][2] <= parse[k][1]
            /\ parse[k][3] >= FACTOR_LENGTH_MIN
            /\ parse[k][1] + parse[k][3] <= plain_len - TAIL_LEN)

\* a block was encoded with a factor that copies from the start of the block and
\* one that ends the factorised prefix
C7_Witness ==
    /\ pc = "enc_done" /\ enc_ret = 0
    /\ \E k \in 1..Len(parse) : parse[k][3] >= FACTOR_LENGTH_MIN /\ parse[k][2] = parse[k][1]
    /\ \E k \in 1..Len(parse) :
         parse[k][3] >= FACTOR_LENGTH_MIN /\ parse[k][1] + parse[k][3] = plain_len - TAIL_LEN

\* the position after the k-th token of the walk
TokenEnd(k) == parse[k][1] + parse[k][3]

\* C8: parse coverage. The tokens of the encode walk start at 0, each starts
\* where the one before it ended, the walk never passes the end of the
\* factorised prefix, and when salz_encode_safe succeeds they end, with the 8
\* tail literals, at src_len, where src_pos stands.
C8_ParseCoverage ==
    /\ \A k \in 1..Len(parse) : parse[k][1] = IF k = 1 THEN 0 ELSE TokenEnd(k - 1)
    /\ \A k \in 1..Len(parse) : parse[k][3] >= 1
    /\ "assert" \notin ctx.fault
    /\ (pc \in {"optimize_loop", "enc_done"} /\ enc_ret # 0 /\ Len(parse) > 0)
       => TokenEnd(Len(parse)) <= plain_len - TAIL_LEN
    /\ (pc = "enc_done" /\ enc_ret = 0)
       => (/\ Len(parse) > 0
           /\ TokenEnd(Len(parse)) = plain_len
           /\ ctx.src_pos = plain_len)

\* a block was encoded whose walk holds literals and a factor before the tail
C8_Witness ==
    /\ pc = "enc_done" /\ enc_ret = 0
    /\ \E k \in 1..Len(parse) : parse[k][3] >= FACTOR_LENGTH_MIN
    /\ \E k \in 2..Len(parse) : parse[k][3] = 1 /\ parse[k][1] < plain_len - TAIL_LEN

\* the segment handed to salz_decode_safe has a header the decoder must refuse
BadHeader ==
    /\ seg_kind # "none"
    /\ IF seg_len < 4 THEN TRUE
       ELSE \/ HdrType(seg) \notin {SALZ_STREAM_TYPE_PLAIN, SALZ_STREAM_TYPE_SALZ}
            \/ HdrLen(seg) > seg_len - 4

\* C9: header validation on decode. A segment shorter than 4 bytes, with a type
\* byte other than 0 and 1, or with a length field above src_len - 4 makes
\* salz_decode_safe return -1 with no byte of the destination written.
C9_HeaderValidation ==
    BadHeader => (pc = "dec_done" /\ dec_ret = -1 /\ out = FreshBuf(dec_cap))

\* a salz segment of the encoder, cut by one byte, was refused
C9_Witness ==
    /\ pc = "dec_done" /\ seg_kind = "truncated" /\ dec_ret = -1
    /\ HdrType(seg) = SALZ_STREAM_TYPE_SALZ /\ HdrLen(seg) = seg_len - 3

\* C10: when an allocation of salz_encode_safe fails, the call returns -1 and
\* nothing is read or written through the pointer the allocation returned.
C10_AllocFailureReported ==
    alloc_fail # "none"
    => (/\ "null_deref" \notin ctx.fault
        /\ pc # "crashed"
        /\ pc = "enc_done" => enc_ret = -1)

\* how many times the allocation a has been freed
Frees(a) == Cardinality({i \in 1..Len(heap.frees) : heap.frees[i] = a})

\* C11: when salz_encode_safe or salz_decode_safe has returned, on any exit
\* path, no allocation of the call is live, every allocation the call made was
\* freed exactly once and nothing else was freed.
C11_AllocationsReleased ==
    pc \in {"enc_done", "dec_done"}
    => (/\ heap.live = {}
        /\ \A a \in {"ctx", "sa", "aux"} : Frees(a) = IF a \in heap.made THEN 1 ELSE 0)

\* salz_encode_safe returned -1 from the encode walk with its three allocations
\* made
C11_Witness ==
    /\ pc = "enc_done" /\ enc_ret = -1 /\ Len(parse) > 0
    /\ heap.made = {"ctx", "sa", "aux"} /\ Len(heap.frees) = 3

\* C12: a salz (type 1) segment is written only when the length of its body
\* fits the 24-bit length field; a body of 2^24 bytes or more is never written
\* with type 1 and a truncated length.
C12_SalzBodyFitsLengthField ==
    (pc = "enc_done" /\ enc_ret = 0 /\ HdrType(enc) = SALZ_STREAM_TYPE_SALZ)
    => (ctx.body_end - 4 < LenCap /\ HdrLen(enc) = ctx.body_end - 4)

\* the block is "abracadabra" followed by 8 zero bytes, the destination of the
\* encode call has the capacity of salz_encoded_len_max, and neither an
\* allocation nor the suffix sorter fails
AbracadabraCall ==
    /\ plain_len = Len(SrcAbracadabra)
    /\ \A i \in 0..(plain_len - 1) : plain[i] = SrcAbracadabra[i + 1]
    /\ enc_cap = salz_encoded_len_max(plain_len)
    /\ alloc_fail = "none"
    /\ ~ctx.sa_err

\* C13 as stated: encoding the 19 bytes of "abracadabra" and 8 zero bytes
\* succeeds, the segment has type 1 (salz), and decoding it returns the 19 bytes.
C13_AbracadabraSalz ==
    /\ (AbracadabraCall /\ pc = "enc_done")
       => (enc_ret = 0 /\ HdrType(enc) = SALZ_STREAM_TYPE_SALZ)
    /\ (AbracadabraCall /\ DecodedEncoded /\ dec_cap = plain_len)
       => (dec_ret = 0 /\ dec_dst_len = plain_len /\ SameBytes)

\* C13: encoding the 19 bytes of "abracadabra" and 8 zero bytes succeeds, the
\* segment has type 0 (plain: the 24-byte salz body is longer than the block)
\* and is 4 + 19 bytes long, and decoding it returns the 19 bytes.
C13_AbracadabraPlain ==
    /\ (AbracadabraCall /\ pc = "enc_done")
       => /\ enc_ret = 0
          /\ HdrType(enc) = SALZ_STREAM_TYPE_PLAIN
          /\ ctx.body_end - 4 = 24
          /\ enc_dst_len = plain_len + 4
    /\ (AbracadabraCall /\ DecodedEncoded /\ dec_cap = plain_len)
       => (dec_ret = 0 /\ dec_dst_len = plain_len /\ SameBytes)

\* the segment of "abracadabra" and 8 zero bytes was decoded into 19 bytes
C13_Witness ==
    /\ AbracadabraCall /\ DecodedEncoded /\ dec_cap = plain_len
    /\ dec_ret = 0 /\ Len(parse) = 16

\* the block is one byte repeated and salz_encode_safe returned 0 for it
SameByteEncoded ==
    /\ plain_len >= 12
    /\ \A i \in 0..(plain_len - 1) : plain[i] = plain[0]
    /\ enc_ret = 0

\* C14: for a block of N >= 12 identical bytes the tokens written are one
\* literal at position 0, one factor of offset 1 covering [1, N - 8) and the 8
\* tail literals, and decoding the segment reproduces the run byte for byte.
C14_SingleByteRepeat ==
    /\ (SameByteEncoded /\ pc = "enc_done")
       => /\ Len(parse) = 10
          /\ parse[1][1] = 0 /\ parse[1][3] = 1
          /\ parse[2] = <<1, 1, plain_len - 9>>
          /\ \A k \in 3..10 : parse[k][1] = plain_len - 11 + k /\ parse[k][3] = 1
    /\ (SameByteEncoded /\ DecodedEncoded /\ dec_cap >= plain_len)
       => (dec_ret = 0 /\ dec_dst_len = plain_len /\ SameBytes)

\* a salz segment of a block of identical bytes was decoded into exactly N bytes
C14_Witness ==
    /\ SameByteEncoded /\ DecodedEncoded /\ dec_cap = plain_len
    /\ HdrType(seg) = SALZ_STREAM_TYPE_SALZ
    /\ dec_ret = 0 /\ parse[2][3] > 8

\* salz_encode_safe or salz_decode_safe has returned
Returned == pc \in {"enc_done", "dec_done"}

\* C15: run to completion. Every call of salz_encode_safe (source of 8 bytes or
\* more, any destination capacity) and every call of salz_decode_safe (any
\* segment) that has started returns, with success or with failure.
C15_RunToCompletion == (pc # "idle") ~> Returned

\* every loop of a call is finite: a call that has started returns or ends by
\* a fault of the process
C15_LoopsFinite == (pc # "idle") ~> (Returned \/ pc = "crashed")

\* an iteration of decode's loop that does not fail advances src_pos
C15_DecodeAdvances ==
    [][(pc = "dec_loop" /\ pc' = "dec_loop") => ctx'.src_pos > ctx.src_pos]_vars

\* the array build_psvnsv_array is given is the suffix array of the block, a
\* permutation of [0, N), between two -1 sentinels
PaddedSa(c) ==
    /\ DOMAIN c.sa_given = 0..(c.src_len + 1)
    /\ c.sa_given[0] = -1 /\ c.sa_given[c.src_len + 1] = -1
    /\ {c.sa_given[k] : k \in 1..c.src_len} = 0..(c.src_len - 1)
    /\ \A k \in 1..(c.src_len - 1) :
         SuffixLess(c.src, c.src_len, c.sa_given[k], c.sa_given[k + 1])

\* the value of the nearest entry of sa before (dir = -1) or after (dir = 1)
\* index k that is less than sa[k]
RECURSIVE NearestSmaller(_, _, _, _)
NearestSmaller(sa, k, j, dir) ==
    IF sa[j] < sa[k] THEN sa[j] ELSE NearestSmaller(sa, k, j + dir, dir)

\* build_psvnsv_array has ended its loop
PsvNsvBuilt == pc = "psvnsv_loop" /\ ~(loc.i < ctx.src_len + 2)

\* C16: after build_psvnsv_array, run on the suffix array of the block between
\* two -1 sentinels, the record of every position p in [0, N) was stored exactly
\* once, its PSV is the value of the nearest suffix array entry before p's entry
\* that is less than p and its NSV that of the nearest such entry after it (-1
\* if none); sa[top - 1] is never read with top = 0.
C16_PsvNsvCorrect ==
    /\ "sa_oob" \notin ctx.fault
    /\ PsvNsvBuilt
       => /\ PaddedSa(ctx)
          /\ \A k \in 1..ctx.src_len :
               /\ Cardinality({w \in 1..Len(ctx.psvnsv_written) :
                                 ctx.psvnsv_written[w] = ctx.sa_given[k]}) = 1
               /\ ctx.aux[0 + 4 * ctx.sa_given[k]]
                    = NearestSmaller(ctx.sa_given, k, k - 1, -1)
               /\ ctx.aux[1 + 4 * ctx.sa_given[k]]
                    = NearestSmaller(ctx.sa_given, k, k + 1, 1)

\* the pass ended on a block of 20 positions or more in which some position has
\* both a previous and a next smaller suffix
C16_Witness ==
    /\ PsvNsvBuilt /\ ctx.src_len >= 20
    /\ \E p \in 0..(ctx.src_len - 1) : ctx.aux[0 + 4 * p] >= 0 /\ ctx.aux[1 + 4 * p] >= 0
    /\ Len(ctx.psvnsv_written) = ctx.src_len

\* the length of the longest common prefix of text[a..N') and text[p..N'), a < p
TrueLcp(c, a, p) ==
    CHOOSE l \in 0..(c.src_len - p) :
        /\ \A j \in 0..(l - 1) : c.src[a + j] = c.src[p + j]
        /\ l = c.src_len - p \/ c.src[a + l] # c.src[p + l]

\* the highest text index lcp_cmp reads (-1 if it reads none): the 8-byte loads
\* of its first loop and the byte loads of its second
RECURSIVE LcpMaxRead(_, _, _, _)
LcpMaxRead(c, len, pos1, pos2) ==
    IF pos2 + len + 8 <= c.src_len
    THEN IF FirstDiff8(c, pos1 + len, pos2 + len) < 8 THEN pos2 + len + 7
         ELSE LET m == LcpMaxRead(c, len + 8, pos1, pos2)
              IN  IF m > pos2 + len + 7 THEN m ELSE pos2 + len + 7
    ELSE IF pos2 + len < c.src_len
    THEN IF c.src[pos1 + len] = c.src[pos2 + len]
         THEN LET m == LcpMaxRead(c, len + 1, pos1, pos2)
              IN  IF m > pos2 + len THEN m ELSE pos2 + len
         ELSE pos2 + len
    ELSE -1

\* C17: while factorize runs, for every position p in [1, N') it has passed and
\* each of its two candidates, the stored length is the true longest common
\* prefix of the candidate's and p's suffixes within [0, N'), although lcp_cmp
\* starts at the hint of position p - 1, and a candidate -1 has length 0; the
\* calls of lcp_cmp for the next position read no text index >= N'.
C17_LcpWithCarryExact ==
    pc = "factorize_loop"
    => /\ \A p \in 1..(loc.i - 1) : \A k \in {0, 2} :
            LET cand == p - ctx.aux[k + 4 * p]
            IN  /\ cand >= -1 /\ cand < p
                /\ ctx.aux[k + 1 + 4 * p] = IF cand = -1 THEN 0 ELSE TrueLcp(ctx, cand, p)
       /\ loc.i < ctx.src_len
          => /\ ctx.aux[0 + 4 * loc.i] # -1
                => LcpMaxRead(ctx, CommonLen(ctx.prev_psv_len),
                              ctx.aux[0 + 4 * loc.i], loc.i) < ctx.src_len
             /\ ctx.aux[1 + 4 * loc.i] # -1
                => LcpMaxRead(ctx, CommonLen(ctx.prev_nsv_len),
                              ctx.aux[1 + 4 * loc.i], loc.i) < ctx.src_len

\* factorize has passed a position whose two candidates differ, one of them
\* compared from a hint of 8 bytes or more
C17_Witness ==
    /\ pc = "factorize_loop" /\ loc.i = ctx.src_len
    /\ \E p \in 2..(ctx.src_len - 1) :
         /\ ctx.aux[1 + 4 * (p - 1)] >= 9
         /\ ctx.aux[1 + 4 * p] >= 8
         /\ ctx.aux[0 + 4 * p] # p + 1 /\ ctx.aux[2 + 4 * p] # p + 1
         /\ ctx.aux[3 + 4 * p] >= 1

\* the bit cost of a factor edge
EdgeCost(offs, len) == 1 + factor_offs_bitsize(offs) + factor_len_bitsize(len)

\* the factor edges <<offs, len>> that leave position p: its PSV and its NSV
\* candidate at full length, if that is 3 or more
FactorEdges(c, p) ==
    {e \in {<<c.aux_factorized[k + 4 * p], c.aux_factorized[k + 1 + 4 * p]>> : k \in {0, 2}} :
        e[2] >= FACTOR_LENGTH_MIN}

\* the total bit costs of all parses of [p, N') made of literal and factor edges
RECURSIVE ParseCosts(_, _)
ParseCosts(c, p) ==
    IF p = c.src_len THEN {0}
    ELSE IF p > c.src_len THEN {}
    ELSE {9 + x : x \in ParseCosts(c, p + 1)}
         \cup UNION {{EdgeCost(e[1], e[2]) + x : x \in ParseCosts(c, p + e[2])} :
                        e \in FactorEdges(c, p)}

MinCost(c, p) == CHOOSE x \in ParseCosts(c, p) : \A y \in ParseCosts(c, p) : x <= y

\* C18: in optimize_factorization and after it, for every position p in
\* [1, N'] the loop has passed, the stored cost is the least total bit cost of
\* a parse of [p, N') made of literal edges (9 bits) and full-length PSV/NSV
\* factor edges of length >= 3, with cost 0 at N', and the stored (offset,
\* length) is the first edge of a parse of that cost; the costs the next
\* iteration reads are at positions q > p whose slot aux[2 + 4q] holds the cost,
\* while the record of p itself is still as factorize left it.
C18_ParseOptimal ==
    pc = "optimize_loop"
    => /\ \A p \in 1..ctx.src_len :
            p > loc.i
            => /\ ctx.aux[2 + 4 * p] = MinCost(ctx, p)
               /\ p < ctx.src_len
                  => IF ctx.aux[1 + 4 * p] = 1
                     THEN 9 + MinCost(ctx, p + 1) = MinCost(ctx, p)
                     ELSE /\ <<ctx.aux[0 + 4 * p], ctx.aux[1 + 4 * p]>> \in FactorEdges(ctx, p)
                          /\ EdgeCost(ctx.aux[0 + 4 * p], ctx.aux[1 + 4 * p])
                               + MinCost(ctx, p + ctx.aux[1 + 4 * p]) = MinCost(ctx, p)
       /\ loc.i >= 1
          => /\ \A k \in 0..3 : ctx.aux[k + 4 * loc.i] = ctx.aux_factorized[k + 4 * loc.i]
             /\ \A q \in {loc.i + 1} \cup {loc.i + e[2] : e \in FactorEdges(ctx, loc.i)} :
                  q > loc.i /\ q <= ctx.src_len /\ ctx.aux[2 + 4 * q] = MinCost(ctx, q)

\* the loop has ended on a block where it chose a factor at one position and a
\* literal at another position that has a factor edge
C18_Witness ==
    /\ pc = "optimize_loop" /\ loc.i = 0 /\ ctx.src_pos = 0
    /\ \E p \in 1..(ctx.src_len - 1) : ctx.aux[1 + 4 * p] >= FACTOR_LENGTH_MIN
    /\ \E p \in 1..(ctx.src_len - 1) : ctx.aux[1 + 4 * p] = 1 /\ FactorEdges(ctx, p) # {}

\* the distance dst - src in cpy_factor after the 8-byte prefix of the
\* offs < 8 path (dst += 8, src += inc2[offs])
PrefixDistance(factor_offs) == (factor_offs + 8) - inc2[factor_offs + 1]

\* C19: for every factor with 1 <= offs <= dst_pos and len >= 3, after the copy
\* of cpy_factor the bytes before dst_pos are unchanged and dst[p + i] =
\* dst[p + i - offs] for all 0 <= i < len, which is what a sequential bytewise
\* copy leaves, on the offs < 8 path as on the offs >= 8 path; after the 8-byte
\* prefix of the offs < 8 path dst - src is at least 8 and a multiple of offs.
C19_OverlapCopyIsBytewise ==
    pc = "copied"
    => LET p == parse[1][1]
           factor_offs == parse[1][2]
           factor_len == parse[1][3]
       IN  /\ \A j \in 0..(p - 1) : ctx.dst[j] = j + 1
           /\ \A i \in 0..(factor_len - 1) : ctx.dst[p + i] = ctx.dst[p + i - factor_offs]
           /\ factor_offs < 8
              => (PrefixDistance(factor_offs) >= 8 /\ PrefixDistance(factor_offs) % factor_offs = 0)

\* a factor of offset 7 and more than 16 bytes was copied over its own output
C19_Witness ==
    /\ pc = "copied" /\ parse[1][2] = 7 /\ parse[1][3] > 16
    /\ ctx.dst[parse[1][1] + 16] = ctx.dst[parse[1][1] - 5]

\* the position at which the token of the encode walk that covers i begins
Owner(i) ==
    parse[CHOOSE k \in 1..Len(parse) : parse[k][1] <= i /\ i < parse[k][1] + parse[k][3]][1]

\* the segment salz_encode_safe wrote for a block of N bytes is decoded into a
\* destination of exactly N bytes
DecodingIntoExactly == seg_kind = "encoded" /\ dec_alloc_fail = "none" /\ dec_cap = plain_len

\* C20: while a segment salz_encode_safe wrote for a block of N bytes is
\* decoded into exactly N bytes no store goes to an index >= N, and when the
\* decoder has returned from a salz segment it has returned 0 and every byte of
\* [0, N) was stored last by the token that covers its position.
C20_TailReservation ==
    DecodingIntoExactly
    => /\ "dec_store_oob" \notin ctx.fault
       /\ (pc = "dec_done" /\ HdrType(seg) = SALZ_STREAM_TYPE_SALZ)
          => /\ dec_ret = 0
             /\ \A i \in 0..(plain_len - 1) :
                  i \in DOMAIN ctx.dst_writer /\ ctx.dst_writer[i] = Owner(i)

\* the decoder returned from a salz segment whose last factor ends at N - 8
\* and is copied with bytes to spare, which land in the 8 tail positions
TailOverCopied ==
    /\ DecodingIntoExactly /\ pc = "dec_done" /\ dec_ret = 0
    /\ HdrType(seg) = SALZ_STREAM_TYPE_SALZ
    /\ \E k \in 1..Len(parse) :
         /\ parse[k][3] >= FACTOR_LENGTH_MIN
         /\ parse[k][1] + parse[k][3] = plain_len - TAIL_LEN
         /\ parse[k][3] % 8 # 0

(***************************************************************************)
(* C21: the slot of the bit accumulator.                                   *)
(***************************************************************************)
\* the encoder is inside the loop of emit_encoding
Emitting == pc = "optimize_loop" /\ loc.i = 0

\* a step of emit_encoding that wrote a literal token and went on
LiteralEmitted ==
    /\ Emitting /\ ~input_processed(ctx) /\ pc' = "optimize_loop"
    /\ AuxLoad(ctx, 1 + 4 * ctx.src_pos) = 1

\* C21 as stated: the step that writes the 64th bit of the accumulator stores
\* the accumulator at its reserved position and reserves the next 8-byte slot
\* at the cursor, so the byte of a literal written after that bit lies after
\* the new slot.
C21_ReservedWhenFull ==
    [][(LiteralEmitted /\ ctx.bits_avail = 1)
       => /\ ctx'.bits_avail = 64
          /\ ctx'.bits_pos = ctx.dst_pos
          /\ ctx'.dst_pos = ctx'.bits_pos + 8 + 1]_vars

\* C21 amended: the slot is reserved by the next bit write.  The step that
\* writes the 64th bit leaves the accumulator full and unstored at its old
\* slot, and the literal byte goes to the cursor; the following token first
\* stores the full accumulator at its slot and reserves the next slot at the
\* cursor, which is after that literal byte.
C21_ReservedAtNextBit ==
    [][/\ (LiteralEmitted /\ ctx.bits_avail = 1)
          => /\ ctx'.bits_avail = 0
             /\ ctx'.bits_pos = ctx.bits_pos
             /\ ctx'.dst_pos = ctx.dst_pos + 1
             /\ ctx'.dst[ctx.dst_pos] = ctx.src[ctx.src_pos]
       /\ (LiteralEmitted /\ ctx.bits_avail = 0 /\ ctx.src_pos > 0)
          => /\ ctx'.bits_avail = 63
             /\ ctx'.bits_pos = ctx.dst_pos
             /\ LoadBytes(ctx'.dst, ctx.bits_pos, 8) = BytesOfU64(ctx.bits)
             /\ ctx'.dst_pos = ctx.dst_pos + 8 + 1]_vars

\* the 65th token of a block of literals has been written: the second slot
\* begins right after the byte of the 64th literal
C21_Witness ==
    /\ Emitting /\ ctx.src_pos = 65 /\ ctx.bits_avail = 63
    /\ \A k \in 1..Len(parse) : parse[k][3] = 1
    /\ ctx.bits_pos = 4 + 8 + 64
    /\ ctx.dst[ctx.bits_pos - 1] = ctx.src[63]

(***************************************************************************)
(* C22: the order of the choices of the optimiser.                         *)
(***************************************************************************)
\* the PSV and the NSV candidate <<offs, len>> factorize left at position p
PsvEdge(c, p) == <<c.aux_factorized[0 + 4 * p], c.aux_factorized[1 + 4 * p]>>
NsvEdge(c, p) == <<c.aux_factorized[2 + 4 * p], c.aux_factorized[3 + 4 * p]>>

\* the cost of the parse of [p, N') that begins with a literal, and with the
\* factor e, given the costs stored after p
ViaLiteral(c, p) == 9 + c.aux[2 + 4 * (p + 1)]
ViaFactor(c, p, e) == EdgeCost(e[1], e[2]) + c.aux[2 + 4 * (p + e[2])]

Usable(e) == e[2] >= FACTOR_LENGTH_MIN

\* the choice at p when the literal, the PSV factor and the NSV factor are
\* looked at in this order and only a strictly cheaper one replaces
FirstCheapest(c, p) ==
    IF /\ Usable(PsvEdge(c, p))
       /\ ViaFactor(c, p, PsvEdge(c, p)) < ViaLiteral(c, p)
       /\ Usable(NsvEdge(c, p))
          => ViaFactor(c, p, PsvEdge(c, p)) <= ViaFactor(c, p, NsvEdge(c, p))
    THEN PsvEdge(c, p)
    ELSE IF /\ Usable(NsvEdge(c, p))
            /\ ViaFactor(c, p, NsvEdge(c, p)) < ViaLiteral(c, p)
    THEN NsvEdge(c, p)
    ELSE <<0, 1>>

\* C22: at every position the optimiser has passed, the stored choice is the
\* first of literal, PSV factor, NSV factor that has the least cost: a later
\* option replaces the choice only when strictly cheaper, so on equal cost the
\* literal beats either factor and the PSV factor beats the NSV factor.
C22_TieBreakOrder ==
    pc = "optimize_loop"
    => \A p \in 1..(ctx.src_len - 1) :
         p > loc.i
         => <<ctx.aux[0 + 4 * p], ctx.aux[1 + 4 * p]>> = FirstCheapest(ctx, p)

\* a literal was kept against a factor of the same cost
LiteralKeptOnTie ==
    \E p \in 1..(ctx.src_len - 1) :
       /\ ctx.aux[1 + 4 * p] = 1
       /\ \E e \in FactorEdges(ctx, p) : ViaFactor(ctx, p, e) = ViaLiteral(ctx, p)

\* the PSV factor was kept against a different NSV factor of the same cost
PsvKeptOnTie ==
    \E p \in 1..(ctx.src_len - 1) :
       /\ Usable(PsvEdge(ctx, p)) /\ Usable(NsvEdge(ctx, p))
       /\ PsvEdge(ctx, p) # NsvEdge(ctx, p)
       /\ ViaFactor(ctx, p, PsvEdge(ctx, p)) = ViaFactor(ctx, p, NsvEdge(ctx, p))
       /\ <<ctx.aux[0 + 4 * p], ctx.aux[1 + 4 * p]>> = PsvEdge(ctx, p)

\* the loop has ended on a block with a tie of either kind
C22_Witness ==
    /\ pc = "optimize_loop" /\ loc.i = 0 /\ ctx.src_pos = 0
    /\ LiteralKeptOnTie /\ PsvKeptOnTie

(***************************************************************************)
(* C23, C24: the codes of write_vnibble and write_gr3 read back.           *)
(***************************************************************************)
\* bit k (from 0) of the accumulators stored one after the other from index 0
StreamBit(mem, k) == read_u64_raw(mem, 8 * (k \div 64))[(k % 64) + 1]

\* the reader gave the value the writer was given and has as many free bits
ReadBack ==
    /\ parse[2][1] = 1
    /\ parse[2][2] = parse[1][2]
    /\ parse[2][3] = parse[1][3]

\* C23: for every value v and every number of free bits of the writer,
\* read_vnibble on what write_vnibble(v) wrote gives v and leaves the reader
\* where the writer is; vnibble_size(v) nibbles are written, of which only the
\* last has its high bit set, also when they lie in two accumulators.
C23_VnibbleRoundTrip ==
    pc = "vnibble_read"
    => /\ ReadBack
       /\ parse[1][4] = 4 * vnibble_size(parse[1][2])
       /\ \A j \in 1..vnibble_size(parse[1][2]) :
            StreamBit(ctx.src, (64 - parse[1][1]) + (4 * (j - 1)))
              = IF j = vnibble_size(parse[1][2]) THEN 1 ELSE 0

\* the same for the values of up to 7 nibbles
VnibbleRoundTripTo7Nibbles ==
    (pc = "vnibble_read" /\ vnibble_size(parse[1][2]) <= 7) => C23_VnibbleRoundTrip

\* nibbles of a value of 3 or more nibbles were read from two accumulators
VnibbleStraddled ==
    /\ pc = "vnibble_read" /\ ReadBack
    /\ vnibble_size(parse[1][2]) >= 3
    /\ parse[1][1] > 0 /\ parse[1][1] < 4 * vnibble_size(parse[1][2])

\* C24: for every value v and every number of free bits (0..64) of the
\* writer, read_gr3 on what write_gr3(v) wrote gives v and leaves the reader
\* with the free bits the writer has, and write_gr3 writes (v >> 3) + 1 + 3
\* bits, also when the unary run ends at or goes over the end of an
\* accumulator, whichever result the shifts by 64 give.
C24_Gr3RoundTrip ==
    pc = "gr3_read"
    => /\ ReadBack
       /\ parse[1][4] = (parse[1][2] \div 8) + 1 + 3

\* a value was read back whose unary run begins in one accumulator and ends
\* with the last bit of the next one, where read_unary shifts by 64
C24_Witness ==
    /\ pc = "gr3_read" /\ ReadBack
    /\ parse[1][1] >= 1 /\ parse[1][1] < 64
    /\ (parse[1][2] \div 8) = parse[1][1] + 63
    /\ "shift_ub" \in ctx.fault /\ ctx.shl64_zero

(***************************************************************************)
(* C25: the stored costs.                                                  *)
(***************************************************************************)
\* the third field of the record of position p
cost(c, p) == c.aux[2 + 4 * p]

\* optimize_factorization has returned and emit_encoding has not begun
Optimized == pc = "optimize_loop" /\ loc.i = 0 /\ ctx.src_pos = 0

\* C25: after optimize_factorization cost[p] <= cost[p + 1] + 9 for every p
\* in [0, N'), cost[p] being the third field of the record of p; this
\* includes p = 0, whose record the backward pass does not visit.
C25_MonotoneCost ==
    Optimized
    => \A p \in 0..(ctx.src_len - 1) : cost(ctx, p) <= cost(ctx, p + 1) + 9

\* the pass has ended on a block where a factor made the cost of a position
\* less than that of a literal, and the third field of position 0 is still 0
C25_Witness ==
    /\ Optimized /\ ctx.src_len >= 2
    /\ cost(ctx, 0) = 0 /\ cost(ctx, 1) > 0
    /\ \E p \in 1..(ctx.src_len - 1) : cost(ctx, p) < cost(ctx, p + 1) + 9

(***************************************************************************)
(* C26: the stores of the encoder.                                         *)
(***************************************************************************)
\* C26: for every dst_len, every store of salz_encode_safe into dst (the bytes
\* of literals and offsets, the 8-byte store of the accumulator at bits_pos in
\* flush_bits and in finalize_encoding, the plain copy and the 4-byte header)
\* is to indices below dst_len, and a call that returns 0 has written no more
\* than dst_len bytes.
C26_EncoderStoresInside ==
    /\ "enc_store_oob" \notin ctx.fault
    /\ (pc = "enc_done" /\ enc_ret = 0) => enc_dst_len <= enc_cap

\* the call with a destination of 4 bytes has returned -1 after the first
\* flush_bits stored the accumulator at dst[0 .. 7]
StoredPastShortDst ==
    /\ pc = "enc_done" /\ enc_ret = -1 /\ enc_cap = 4
    /\ "enc_store_oob" \in ctx.fault

(***************************************************************************)
(* C27: the indices of the auxiliary array.                                *)
(***************************************************************************)
\* C27: for every N' = src_len - 8 >= 0, N' = 0 and N' = 1 included, every
\* read and write of aux in factorize and optimize_factorization uses an index
\* in [0, 4 * (N' + 1)).
C27_AuxIndexSafe == (~ctx.aux_null /\ plain_len >= TAIL_LEN) => "aux_oob" \notin ctx.fault

\* the same where at least one position is factorized
AuxIndexSafeFromOne == plain_len > TAIL_LEN => C27_AuxIndexSafe

\* optimize_factorization was entered with N' = 1 and returned
OptimizedShortest ==
    /\ pc = "optimize_loop" /\ loc.i = 0 /\ ctx.src_pos = 0
    /\ ctx.src_len = 1

(***************************************************************************)
(* C28: the length salz_encode_safe reports.                               *)
(***************************************************************************)
EncodedOk == pc = "enc_done" /\ enc_ret = 0

\* C28 as stated: whenever salz_encode_safe succeeds, *dst_len is at most
\* src_len + 4, and it is src_len + 4 exactly when the segment is plain.
C28_LenPlus4IffPlain ==
    EncodedOk
    => /\ enc_dst_len <= plain_len + 4
       /\ enc_dst_len = plain_len + 4 <=> HdrType(enc) = SALZ_STREAM_TYPE_PLAIN

\* C28 amended: whenever salz_encode_safe succeeds, *dst_len is at most
\* src_len + 4; a plain segment has src_len + 4 bytes, and a salz segment has
\* 4 bytes more than its body, which is src_len + 4 when the body is as long
\* as the source and less otherwise.
C28_LenAtMostPlus4 ==
    EncodedOk
    => /\ enc_dst_len <= plain_len + 4
       /\ HdrType(enc) = SALZ_STREAM_TYPE_PLAIN => enc_dst_len = plain_len + 4
       /\ HdrType(enc) = SALZ_STREAM_TYPE_SALZ
          => /\ enc_dst_len = ctx.body_end
             /\ enc_dst_len = plain_len + 4 <=> ctx.body_end - 4 = plain_len

\* a salz segment of src_len + 4 bytes was returned
C28_Witness ==
    /\ EncodedOk
    /\ HdrType(enc) = SALZ_STREAM_TYPE_SALZ
    /\ enc_dst_len = plain_len + 4

(***************************************************************************)
(* C29: the costs and the bits written.                                    *)
(***************************************************************************)
\* the bits the encoder c has written: those pushed into its accumulators and
\* 8 for each byte stored by write_u8 and cpy_literal.  Every byte of dst from
\* index 4 to the cursor is such a byte or one of the 8 bytes of a slot, and
\* every slot holds 64 bits, except that bits_avail bits of the current one
\* are not yet written.
BitsEmitted(c) == (8 * (c.dst_pos - 4)) - c.bits_avail

\* C29: while emit_encoding walks the parse optimize_factorization chose, the
\* bits written for the positions [1, src_pos) are cost[1] - cost[src_pos];
\* at the end of the walk the bits written for [1, N') are cost[1].  So each
\* literal takes 9 bits and each factor 1 + factor_offs_bitsize +
\* factor_len_bitsize bits of the stream.
C29_CostIsBitsWritten ==
    (Emitting /\ ctx.src_pos >= 1 /\ ctx.src_pos <= ctx.src_len)
    => BitsEmitted(ctx) - 9 = cost(ctx, 1) - cost(ctx, ctx.src_pos)

\* the walk has ended on a parse with a literal after position 0 and a factor
\* whose length code has a unary part
C29_Witness ==
    /\ Emitting /\ input_processed(ctx) /\ ctx.src_len > 1
    /\ BitsEmitted(ctx) - 9 = cost(ctx, 1)
    /\ \E k \in 2..Len(parse) : parse[k][3] = 1
    /\ \E k \in 2..Len(parse) : parse[k][3] >= FACTOR_LENGTH_MIN + 8

(***************************************************************************)
(* C30: *dst_len after a failure.                                          *)
(***************************************************************************)
\* C30: whenever salz_encode_safe or salz_decode_safe returns -1, *dst_len
\* still holds the capacity the caller passed in; it holds the produced length
\* (the cursor) when the call returns 0.
C30_LenKeptOnFailure ==
    /\ pc = "enc_done"
       => IF enc_ret = -1 THEN enc_dst_len = enc_cap
          ELSE enc_ret = 0 /\ enc_dst_len = ctx.dst_pos
    /\ pc = "dec_done"
       => IF dec_ret = -1 THEN dec_dst_len = dec_cap
          ELSE dec_ret = 0 /\ dec_dst_len = ctx.dst_pos

\* salz_encode_safe returned -1 out of emit_encoding or finalize_encoding
\* with its cursor different from the capacity passed in
C30_Witness ==
    /\ pc = "enc_done" /\ enc_ret = -1
    /\ ~ctx.null /\ ~ctx.sa_err
    /\ ctx.dst_pos > 4 /\ ctx.dst_pos # enc_cap

\* salz_decode_safe returned -1 after it had stored bytes
DecodeFailedMidway ==
    /\ pc = "dec_done" /\ dec_ret = -1
    /\ ~ctx.null
    /\ ctx.dst_pos > 0 /\ ctx.dst_pos # dec_cap

\* longest run of zeros on which ZerosBulk is compared with write_zeros
ZeroProbe == 200

\* ZerosBulk gives what write_zeros gives (checked on the contexts the encoder
\* of Sources goes through, for up to ZeroProbe zeros).
ZerosBulkAgrees ==
    (pc = "optimize_loop" /\ loc.i = 0)
    => \A k \in 0..ZeroProbe :
         ZerosRoom(ctx, k) => write_zeros(ctx, k) = Ok(ZerosBulk(ctx, k))

\* LargeWriteFactor gives what write_factor gives
LargeWriteFactorAgrees ==
    (pc = "optimize_loop" /\ loc.i = 0)
    => \A len \in {3, 4, 66, 514, 515, 1030} :
         (ctx.dst_len - ctx.dst_pos >= 1 + (8 * (2 + (len \div 512))))
         => write_factor(ctx, 1, len) = LargeWriteFactor(ctx, 1, len)

\* LiteralsCtx gives the context of the encoder while every token is a literal
LiteralsCtxAgrees ==
    (/\ pc = "optimize_loop" /\ loc.i = 0 /\ ctx.src_pos >= 1
     /\ \A k \in 1..Len(parse) : parse[k][3] = 1)
    => /\ LiteralsCtx(plain_len, ctx.src_pos, enc_cap).dst_pos = ctx.dst_pos
       /\ LiteralsCtx(plain_len, ctx.src_pos, enc_cap).bits_pos = ctx.bits_pos
       /\ LiteralsCtx(plain_len, ctx.src_pos, enc_cap).bits_avail = ctx.bits_avail
       /\ LiteralsCtx(plain_len, ctx.src_pos, enc_cap).bits = ctx.bits
       /\ LiteralsCtx(plain_len, ctx.src_pos, enc_cap).src_len = ctx.src_len

====
